---- MODULE Spec2Model ----
(***************************************************************************)
(* Vigilant: the clause-index lifecycle run at process start                *)
(* (rag_engine.initialize_policy_store, main.lifespan) and the analysis     *)
(* pipeline of one request (main.analyze_call, main._run_analysis_pipeline, *)
(* compliance_engine.run_compliance_analysis,                               *)
(* json_builder.build_output_json).                                         *)
(*                                                                          *)
(* A Python dict is a TLA+ function whose DOMAIN is the set of keys that    *)
(* are present; dict.get(k, d) is Get(d, k, default).  JSON null / Python   *)
(* None is the value None.                                                  *)
(***************************************************************************)
EXTENDS Integers, Sequences, FiniteSets, TLC

VARIABLES
    GOOGLE_API_KEY,        \* main.GOOGLE_API_KEY: "" when the credential is missing
    policies,              \* the files of POLICIES_DIR, in sorted order
    persisted,             \* the persisted index location: [exists, entries]
    rbi_vectorstore,       \* rag_engine._rbi_vectorstore: [set, entries]; set = FALSE is None
    lifecycle,             \* index states visited by the last initialize_policy_store call
    initLog,               \* what that call did: [called, deleted, parsed, raised]
    phase,                 \* "boot" before lifespan's startup part has run, then "serving"
    pc,                    \* position of the request in flight
    transcription_result,  \* transcribe_and_analyze's result for the request
    time_violation_result, \* check_time_violation's result for the request
    all_clauses,           \* clause ids handed to the reasoning step
    attempts,              \* reasoning attempts made by run_compliance_analysis, in order
    compliance,            \* run_compliance_analysis: [outcome, result]
    response,              \* what the request answered: [kind, status, body]
    retrieval,             \* what retrieve_relevant_clauses met and gave for the request
    args,                  \* a direct call of one service function: [fn, ...its arguments]
    returned,              \* what that call gave: [kind, value], kind "value" or "raised"
    upload,                \* the request as received: [suffix, client_config form field]
    tmp_audio_path,        \* the pipeline's local of main.py line 271: None or the file's name
    tempdir,               \* the files of the temporary directory
    merged_config,         \* the configuration applied to the request (main.py 284-300)
    calls,                 \* the stages run for the request, in order
    heard,                 \* what the transcription service answered for the audio
    transcriber,           \* transcribe_and_analyze in steps: its position and locals
    workers                \* concurrent requests: position and handle reads of each

vars == <<GOOGLE_API_KEY, policies, persisted, rbi_vectorstore, lifecycle, initLog,
          phase, pc, transcription_result, time_violation_result, all_clauses,
          attempts, compliance, response, retrieval, args, returned,
          upload, tmp_audio_path, tempdir, merged_config, calls, heard,
          transcriber, workers>>

processVars == <<GOOGLE_API_KEY, policies, persisted, rbi_vectorstore, lifecycle,
                 initLog, phase>>

requestVars == <<pc, transcription_result, time_violation_result, all_clauses,
                 attempts, compliance, response, retrieval>>

callVars == <<args, returned>>

stageVars == <<upload, tmp_audio_path, tempdir, merged_config, calls, heard>>

transcriberVars == <<transcriber>>

workerVars == <<workers>>

detailVars == <<stageVars, transcriberVars, workerVars>>

----------------------------------------------------------------------------
(* Bounds of the model *)

\* clauses in the policy corpus
MaxClauses == 2
\* entries of a persisted index found at process start
MaxIndex == 2
\* violations in a reasoning output handed straight to build_output_json
MaxViolations == 2
\* violations in a reasoning output travelling through the whole pipeline
MaxPipelineViolations == 1
\* files of a policy directory handed to the parser on its own
MaxFiles == 2
\* lines of one such file
MaxLines == 2
\* turns of a transcript handed to the retriever on its own
MaxTurns == 2
\* 10-second windows of a recording handed to the acoustic pass on its own
MaxSegments == 2
\* words of a transcript line handed to the tone classifier on its own
MaxWords == 3

----------------------------------------------------------------------------
(* Python values *)

None == "<None>"

\* dict.get(key, default)
Get(d, key, default) == IF key \in DOMAIN d THEN d[key] ELSE default

\* truthiness of a string-or-None value
Truthy(v) == v # None /\ v # ""

\* the empty dict
EmptyDict == [k \in {} |-> None]

\* the elements of a sequence
Range(s) == {s[i] : i \in DOMAIN s}

----------------------------------------------------------------------------
(* Clause Store: rag_engine.py *)

ClauseName(i) ==
    CASE i = 1 -> "RBI-REC-01"
      [] i = 2 -> "RBI-REC-02"
      [] i = 3 -> "NBFC-01"
      [] OTHER -> "INT-04"

\* The policy directory is the sequence of its *.txt files in sorted(glob)
\* order; a file is its lines and whether the last one ends with a line break.
PolicyFileName(k) ==
    CASE k = 1 -> "internal_policies.txt"
      [] k = 2 -> "rbi_recovery_guidelines.txt"
      [] OTHER -> "state_guidelines.txt"

\* the line "CLAUSE <id>: <name>"
MarkerLine(id) == [kind |-> "marker", clause_id |-> id, rule_name |-> "rule"]

\* a line of body text
TextLine == [kind |-> "text"]

\* a line of body text that quotes a heading: "see CLAUSE <id>: for details"
MentionLine(id) == [kind |-> "mention", clause_id |-> id, rule_name |-> "for details"]

PolicyFile(name, lines, terminated) ==
    [name |-> name, lines |-> lines, terminated |-> terminated]

\* a file of n clauses written as the format asks: a marker line and a body
\* line each, every line ended by a line break
RegularFile(n) ==
    PolicyFile(PolicyFileName(2),
               [i \in 1..(2 * n) |-> IF i % 2 = 1 THEN MarkerLine(ClauseName((i + 1) \div 2))
                                                 ELSE TextLine],
               TRUE)

\* the corpora the process may start on: one file of 0..MaxClauses clauses, a
\* file whose last clause is a heading at the very end of the file, and a file
\* whose body quotes the heading of its own clause
Corpora ==
    {<<RegularFile(n)>> : n \in 0..MaxClauses}
    \cup {<<PolicyFile(PolicyFileName(2),
                       <<MarkerLine(ClauseName(1)), TextLine, MarkerLine(ClauseName(2))>>,
                       FALSE)>>,
          <<PolicyFile(PolicyFileName(2),
                       <<MarkerLine(ClauseName(1)), MentionLine(ClauseName(1))>>,
                       TRUE)>>}

\* an entry of a legacy "chunked" index: no clause_id in its metadata
LegacyEntry == [source |-> "rbi_recovery_guidelines.txt"]

\* an entry of a per-clause index
ClauseEntry(id) ==
    [clause_id |-> id, rule_name |-> "rule", source |-> "rbi_recovery_guidelines.txt"]

\* the finditer of lines 52-56 and 209-213 on one file, in match order. The
\* pattern CLAUSE\s+([\w-]+):\s*(.+?)\n(.*?)(?=CLAUSE\s+[\w-]+:|\Z) is not
\* anchored to a line, so it matches at a heading quoted inside the body too,
\* and (.+?)\n needs a line break after the name, so a heading that is the
\* last line of a file that does not end with a line break is no match.
ClauseMatches(file) ==
    LET numbered == [i \in DOMAIN file.lines |->
                        [line |-> file.lines[i],
                         ended |-> i < Len(file.lines) \/ file.terminated]]
        matched(l) == l.line.kind \in {"marker", "mention"} /\ l.ended
        found == SelectSeq(numbered, matched)
    IN  [i \in DOMAIN found |->
            [clause_id |-> found[i].line.clause_id,
             rule_name |-> found[i].line.rule_name,
             source    |-> file.name]]

\* the loop over sorted(policy_path.glob("*.txt")): lines 48 and 204
RECURSIVE AllMatches(_)
AllMatches(corpus) ==
    IF corpus = <<>> THEN <<>>
    ELSE ClauseMatches(Head(corpus)) \o AllMatches(Tail(corpus))

\* lines 187-225: one dict per match
get_all_policy_clauses(corpus) == AllMatches(corpus)

\* the clause_id of each record of a list
ClauseIds(clauses) == [i \in DOMAIN clauses |-> clauses[i].clause_id]

NoIndex == [exists |-> FALSE, entries |-> <<>>]

\* what the persisted location may hold when the process starts: nothing, an
\* empty index, a legacy index, or a per-clause index
PersistedInputs ==
    {NoIndex}
    \cup {[exists |-> TRUE, entries |-> [i \in 1..n |-> LegacyEntry]] : n \in 0..MaxIndex}
    \cup {[exists |-> TRUE, entries |-> [i \in 1..n |-> ClauseEntry(ClauseName(i))]] :
             n \in 1..MaxIndex}

\* lines 38-74: one Document per match, the match in its metadata
_parse_clause_documents(corpus) ==
    LET found == AllMatches(corpus)
    IN  [i \in DOMAIN found |->
            [clause_id |-> found[i].clause_id, rule_name |-> found[i].rule_name,
             source |-> found[i].source]]

\* lines 98-101: the first sampled entry carries a clause_id
SampleIsPerClause(index) ==
    /\ Len(index.entries) > 0
    /\ Truthy(Get(index.entries[1], "clause_id", None))

\* lines 107-109: shutil.rmtree(persist_path, ignore_errors=True); a failed
\* deletion is swallowed and leaves the location as it was
rmtree(index, rmtree_ok) == IF rmtree_ok THEN NoIndex ELSE index

\* lines 111-126, run on the location as the cache check left it.
\* Chroma.from_documents adds the clauses to the collection at persist_path.
BuildFresh(index, corpus, embed_ok, trail, deleted) ==
    LET documents == _parse_clause_documents(corpus)
        built     == index.entries \o documents
    IN  IF documents = <<>> \/ ~embed_ok
        THEN [set |-> FALSE, entries |-> <<>>, persisted |-> index,
              lifecycle |-> trail \o <<"Building", "Failed">>,
              deleted |-> deleted, parsed |-> TRUE, raised |-> TRUE]
        ELSE [set |-> TRUE, entries |-> built,
              persisted |-> [exists |-> TRUE, entries |-> built],
              lifecycle |-> trail \o <<"Building", "Ready">>,
              deleted |-> deleted, parsed |-> TRUE, raised |-> FALSE]

\* the whole call: the handle it leaves, the persisted location it leaves, the
\* index states it went through, and whether it raised
initialize_policy_store(index, corpus, rmtree_ok, embed_ok) ==
    IF index.exists
    THEN IF Len(index.entries) > 0
         THEN IF SampleIsPerClause(index)
              THEN [set |-> TRUE, entries |-> index.entries, persisted |-> index,
                    lifecycle |-> <<"Loading", "ValidCache", "Ready">>,
                    deleted |-> FALSE, parsed |-> FALSE, raised |-> FALSE]
              ELSE BuildFresh(rmtree(index, rmtree_ok), corpus, embed_ok,
                              <<"Loading", "StaleCache">>, rmtree_ok)
         ELSE BuildFresh(index, corpus, embed_ok, <<"Loading">>, FALSE)
    ELSE BuildFresh(index, corpus, embed_ok, <<"Absent">>, FALSE)

NotCalled == [called |-> FALSE, found |-> NoIndex, deleted |-> FALSE,
              parsed |-> FALSE, raised |-> FALSE]

----------------------------------------------------------------------------
(* Process start and stop: main.py lifespan *)

Idle == [kind |-> "none", status |-> 0, body |-> EmptyDict]

NoCompliance == [outcome |-> "none", result |-> EmptyDict]

\* retrieve_relevant_clauses has not run for the request
NoRetrieval == [ran |-> FALSE]

ProcessInit ==
    /\ GOOGLE_API_KEY \in {"", "key"}
    /\ policies \in Corpora
    /\ persisted \in PersistedInputs
    /\ rbi_vectorstore = [set |-> FALSE, entries |-> <<>>]
    /\ lifecycle = <<>>
    /\ initLog = NotCalled
    /\ phase = "boot"

\* no request in flight
RequestIdle ==
    /\ pc = "idle"
    /\ transcription_result = EmptyDict
    /\ time_violation_result = EmptyDict
    /\ all_clauses = <<>>
    /\ attempts = <<>>
    /\ compliance = NoCompliance
    /\ response = Idle
    /\ retrieval = NoRetrieval

\* no upload received
NoUpload == [suffix |-> None, client_config |-> [kind |-> "absent"]]

\* the transcription service has not been asked
NotHeard == [kind |-> "none", turns |-> <<>>]

\* transcribe_and_analyze is not running
NotTranscribing == [pc |-> "idle"]

\* no request is being followed through the stages of the pipeline, no call
\* of transcribe_and_analyze through its steps, no requests side by side
StageInit ==
    /\ upload = NoUpload
    /\ tmp_audio_path = None
    /\ tempdir = {}
    /\ merged_config = EmptyDict
    /\ calls = <<>>
    /\ heard = NotHeard

DetailInit ==
    /\ StageInit
    /\ transcriber = NotTranscribing
    /\ workers = <<>>

RequestInit ==
    /\ DetailInit
    /\ RequestIdle

\* no service function is being called on its own
NoCall == [fn |-> "none"]

NotReturned == [kind |-> "none", value |-> None]

CallInit ==
    /\ args = NoCall
    /\ returned = NotReturned

Init == ProcessInit /\ RequestInit /\ CallInit

\* lines 56-68: startup. A missing key skips the initialization; an exception
\* of initialize_policy_store is logged and swallowed.
lifespan ==
    /\ phase = "boot"
    /\ phase' = "serving"
    /\ IF GOOGLE_API_KEY = ""
       THEN /\ initLog' = NotCalled
            /\ UNCHANGED <<rbi_vectorstore, persisted, lifecycle>>
       ELSE \E rmtree_ok \in BOOLEAN, embed_ok \in BOOLEAN :
              LET r == initialize_policy_store(persisted, policies, rmtree_ok, embed_ok)
              IN  /\ rbi_vectorstore' = [set |-> r.set, entries |-> r.entries]
                  /\ persisted' = r.persisted
                  /\ lifecycle' = r.lifecycle
                  /\ initLog' = [called |-> TRUE, found |-> persisted,
                                 deleted |-> r.deleted, parsed |-> r.parsed,
                                 raised |-> r.raised]
    /\ UNCHANGED <<GOOGLE_API_KEY, policies>>
    /\ UNCHANGED requestVars
    /\ UNCHANGED <<callVars, detailVars>>

\* line 69 and rag_engine.py line 28: the process ends between requests; the
\* next process starts with the handle unset and the location as it was left
Shutdown ==
    /\ phase = "serving"
    /\ pc \in {"idle", "done"}
    /\ Len(persisted.entries) <= MaxIndex + MaxClauses
    /\ phase' = "boot"
    /\ rbi_vectorstore' = [set |-> FALSE, entries |-> <<>>]
    /\ lifecycle' = <<>>
    /\ initLog' = NotCalled
    /\ UNCHANGED <<GOOGLE_API_KEY, policies, persisted>>
    /\ pc' = "idle"
    /\ transcription_result' = EmptyDict
    /\ time_violation_result' = EmptyDict
    /\ all_clauses' = <<>>
    /\ attempts' = <<>>
    /\ compliance' = NoCompliance
    /\ response' = Idle
    /\ retrieval' = NoRetrieval
    /\ UNCHANGED <<callVars, detailVars>>

----------------------------------------------------------------------------
(* Temporal Policy Checker: audio_processor.check_time_violation *)

IST_OFFSET == 330

TIME_CLAUSE_ID == "INTERNAL-TIME-01"

Pad2(n) == IF n < 10 THEN "0" \o ToString(n) ELSE ToString(n)

\* the UTC minute of the day at which a request may arrive (datetime.now):
\* 02:00Z (07:30 IST), 02:30Z (08:00 IST), 13:30Z (19:00 IST)
CallTimesUTC == {120, 150, 810}

\* lines 254-277 with the evening bound read as "after the 19 o'clock hour"
CheckTimeViolationAfterSeven(utc_minute) ==
    LET ist          == (utc_minute + IST_OFFSET) % 1440
        hour         == ist \div 60
        ist_time_str == Pad2(hour) \o ":" \o Pad2(ist % 60)
        is_violation == hour < 8 \/ hour > 19
        period       == IF hour < 8 THEN "morning (before 8 AM)" ELSE "evening (after 7 PM)"
    IN  [violation   |-> is_violation,
         ist_time    |-> ist_time_str,
         clause_id   |-> TIME_CLAUSE_ID,
         rule_name   |-> "Operating Hours Compliance",
         description |->
            IF is_violation
            THEN "Call placed outside approved hours (8 AM - 7 PM IST). Call was received at "
                 \o ist_time_str \o " IST, which is in the " \o period \o "."
            ELSE "Call placed within approved hours. IST time: " \o ist_time_str \o "."]

\* lines 254-277, for a parseable UTC timestamp given as its minute of the day
check_time_violation(utc_minute) ==
    LET ist          == (utc_minute + IST_OFFSET) % 1440
        hour         == ist \div 60
        ist_time_str == Pad2(hour) \o ":" \o Pad2(ist % 60)
        is_violation == hour < 8 \/ hour >= 19
        period       == IF hour < 8 THEN "morning (before 8 AM)" ELSE "evening (after 7 PM)"
    IN  [violation   |-> is_violation,
         ist_time    |-> ist_time_str,
         clause_id   |-> TIME_CLAUSE_ID,
         rule_name   |-> "Operating Hours Compliance",
         description |->
            IF is_violation
            THEN "Call placed outside approved hours (8 AM - 7 PM IST). Call was received at "
                 \o ist_time_str \o " IST, which is in the " \o period \o "."
            ELSE "Call placed within approved hours. IST time: " \o ist_time_str \o "."]

TimeVerdicts == {check_time_violation(m) : m \in CallTimesUTC}

\* the days a datetime can hold, as ordinals: 0001-01-01 to 9999-12-31
DateRange == 1 .. 3652059

\* lines 279-287: the answer of the except branch
TimestampParseError ==
    [violation   |-> FALSE,
     ist_time    |-> "unknown",
     clause_id   |-> TIME_CLAUSE_ID,
     rule_name   |-> "Operating Hours Compliance",
     description |-> "Could not determine call time. Timestamp parse error."]

\* lines 280: the warning prints the offending value; a string that the
\* output stream cannot encode (a lone surrogate) makes the print raise
WarningRaises(call_timestamp_utc) ==
    /\ call_timestamp_utc.kind = "text"
    /\ ~call_timestamp_utc.encodable

\* lines 231-287.  A timestamp is a value that is not a string, a string
\* that is no ISO 8601 date-time, or an ISO 8601 date-time: its day (the
\* ordinal of its date), its wall-clock minute of that day and its zone
\* ("naive", "Z" or "offset" with the offset in minutes).
TimeViolationOf(call_timestamp_utc) ==
    IF call_timestamp_utc.kind # "iso"
    THEN \* AttributeError of endswith, ValueError of fromisoformat
         IF WarningRaises(call_timestamp_utc) THEN [raised |-> TRUE, result |-> None]
         ELSE [raised |-> FALSE, result |-> TimestampParseError]
    ELSE LET offset == IF call_timestamp_utc.zone = "offset"
                       THEN call_timestamp_utc.offset ELSE 0
             \* the wall clock less the offset, counted from the day before
             since      == call_timestamp_utc.minute - offset + 1440
             utc_day    == call_timestamp_utc.day - 1 + since \div 1440
             utc_minute == since % 1440
             ist_day    == utc_day + (utc_minute + IST_OFFSET) \div 1440
         IN  IF utc_day \notin DateRange \/ ist_day \notin DateRange
             THEN \* OverflowError of astimezone
                  [raised |-> FALSE, result |-> TimestampParseError]
             ELSE [raised |-> FALSE, result |-> check_time_violation(utc_minute)]

----------------------------------------------------------------------------
(* Acoustic Segmenter: audio_processor.analyze_audio.  Energies are counted *)
(* in 1/100000, pitches in 1/1000 Hz, lengths in samples.                   *)

SEGMENT_DURATION_SECONDS == 10
SAMPLE_RATE == 16000

\* 0.65, 0.35 and 210.0 Hz
HIGH_ENERGY_THRESHOLD == 65000
MEDIUM_ENERGY_THRESHOLD == 35000
HIGH_PITCH_THRESHOLD == 210000

\* lines 33-37
_seconds_to_mmss(seconds) == Pad2(seconds \div 60) \o ":" \o Pad2(seconds % 60)

\* lines 40-46
_classify_arousal(energy, pitch) ==
    IF energy >= HIGH_ENERGY_THRESHOLD /\ pitch >= HIGH_PITCH_THRESHOLD THEN "High"
    ELSE IF energy >= MEDIUM_ENERGY_THRESHOLD THEN "Medium"
    ELSE "Low"

\* round(x, 4) of an energy and round(x, 2) of a pitch: both drop the last
\* digit of the unit used here (no input of the model lies halfway)
RoundLastDigit(x) == ((x + 5) \div 10) * 10

Min(a, b) == IF a < b THEN a ELSE b

\* lines 67-75, 81-89 and 143-151
SyntheticSegment ==
    [timestamp |-> "00:00", energy_score |-> 50000, pitch_hz |-> 150000,
     acoustic_arousal |-> "Medium"]

\* line 93: max(1, ceil(total_samples / segment_samples))
NumSegments(total_samples) ==
    LET segment_samples == SEGMENT_DURATION_SECONDS * SAMPLE_RATE
        ceil == (total_samples + segment_samples - 1) \div segment_samples
    IN  IF ceil < 1 THEN 1 ELSE ceil

\* lines 101-103: the samples of window i (from 0)
SegmentLength(total_samples, i) ==
    LET segment_samples == SEGMENT_DURATION_SECONDS * SAMPLE_RATE
        start == i * segment_samples
        end   == Min(start + segment_samples, total_samples)
    IN  IF end > start THEN end - start ELSE 0

\* lines 105-107: len(segment) < sr * 0.5
SkipsSegment(length) == 2 * length < SAMPLE_RATE

\* lines 109-141 for window i: audio.features[i + 1] is what the signal gives,
\* ratio = rms / (global_rms * 2.0 + 1e-6) and pitch = the median of the
\* positive f0 estimates, 0 when there is none or yin raises
Segment(audio, i) ==
    LET energy_normalized == Min(100000, audio.features[i + 1].ratio)
        pitch             == audio.features[i + 1].pitch
    IN  [timestamp        |-> _seconds_to_mmss(i * SEGMENT_DURATION_SECONDS),
         energy_score     |-> RoundLastDigit(energy_normalized),
         pitch_hz         |-> RoundLastDigit(pitch),
         acoustic_arousal |-> _classify_arousal(energy_normalized, pitch)]

\* analyze_audio ending in "return results": no default when every window was
\* skipped
AnalyzeAudioWithoutDefault(audio) ==
    IF ~audio.librosa_available \/ ~audio.decodable THEN <<SyntheticSegment>>
    ELSE LET windows == [k \in 1..NumSegments(audio.total_samples) |-> k - 1]
             kept(i) == ~SkipsSegment(SegmentLength(audio.total_samples, i))
             emitted == SelectSeq(windows, kept)
         IN  [k \in DOMAIN emitted |-> Segment(audio, emitted[k])]

\* lines 49-151
analyze_audio(audio) ==
    IF ~audio.librosa_available \/ ~audio.decodable THEN <<SyntheticSegment>>
    ELSE LET windows == [k \in 1..NumSegments(audio.total_samples) |-> k - 1]
             kept(i) == ~SkipsSegment(SegmentLength(audio.total_samples, i))
             emitted == SelectSeq(windows, kept)
             results == [k \in DOMAIN emitted |-> Segment(audio, emitted[k])]
         IN  IF results # <<>> THEN results ELSE <<SyntheticSegment>>

----------------------------------------------------------------------------
(* Lexical Tone Classifier: audio_processor.classify_tone.  A line of text  *)
(* is the sequence of its characters.                                       *)

\* lines 159-164
POSITIVE_STEMS ==
    <<<<"t", "h", "a", "n", "k">>, <<"g", "r", "e", "a", "t">>, <<"g", "o", "o", "d">>,
      <<"h", "a", "p", "p", "y">>, <<"p", "e", "r", "f", "e", "c", "t">>, <<"n", "i", "c", "e">>,
      <<"a", "p", "p", "r", "e", "c", "i", "a", "t">>,
      <<"w", "o", "n", "d", "e", "r", "f", "u", "l">>,
      <<"e", "x", "c", "e", "l", "l", "e", "n", "t">>, <<"o", "k", "a", "y">>,
      <<"s", "u", "r", "e">>, <<"f", "i", "n", "e">>, <<"a", "l", "r", "i", "g", "h", "t">>,
      <<"h", "e", "l", "p">>, <<"a", "s", "s", "i", "s", "t">>, <<"s", "o", "l", "u", "t">>,
      <<"r", "e", "s", "o", "l", "v">>, <<"u", "n", "d", "e", "r", "s", "t", "a", "n", "d">>,
      <<"p", "l", "e", "a", "s", "a", "n", "t">>, <<"c", "o", "o", "p", "e", "r", "a", "t">>,
      <<"w", "i", "l", "l", "i", "n", "g">>, <<"a", "b", "s", "o", "l", "u", "t">>,
      <<"c", "e", "r", "t", "a", "i", "n", "l", "y">>,
      <<"o", "f", " ", "c", "o", "u", "r", "s", "e">>>>

\* lines 166-174
ANGRY_STEMS ==
    <<<<"a", "n", "g", "r">>, <<"u", "p", "s", "e", "t">>,
      <<"f", "r", "u", "s", "t", "r", "a", "t">>, <<"a", "n", "n", "o", "y">>,
      <<"c", "o", "m", "p", "l", "a", "i", "n">>, <<"t", "e", "r", "r", "i", "b", "l">>,
      <<"h", "o", "r", "r", "i", "b", "l">>,
      <<"u", "n", "a", "c", "c", "e", "p", "t", "a", "b", "l">>,
      <<"r", "i", "d", "i", "c", "u", "l">>, <<"u", "s", "e", "l", "e", "s", "s">>,
      <<"f", "r", "a", "u", "d">>, <<"s", "c", "a", "m">>, <<"c", "h", "e", "a", "t">>,
      <<"l", "i", "a", "r">>, <<"t", "h", "r", "e", "a", "t", "e", "n">>,
      <<"t", "h", "r", "e", "a", "t">>, <<"d", "e", "m", "a", "n", "d">>,
      <<"r", "e", "f", "u", "s">>, <<"i", "m", "p", "o", "s", "s", "i", "b">>,
      <<"w", "r", "o", "n", "g">>, <<"m", "i", "s", "t", "a", "k">>,
      <<"h", "a", "r", "a", "s", "s">>, <<"a", "b", "u", "s", "e">>,
      <<"a", "b", "u", "s", "i", "v">>, <<"i", "n", "s", "u", "l", "t">>,
      <<"s", "t", "u", "p", "i", "d">>, <<"i", "d", "i", "o", "t">>,
      <<"n", "o", "n", "s", "e", "n", "s", "e">>, <<"e", "n", "o", "u", "g", "h">>,
      <<"f", "e", "d", " ", "u", "p">>, <<"s", "h", "u", "t", " ", "u", "p">>,
      <<"g", "e", "t", " ", "o", "u", "t">>, <<"i", "l", "l", "e", "g", "a", "l">>,
      <<"p", "o", "l", "i", "c", "e">>, <<"j", "a", "i", "l">>, <<"a", "r", "r", "e", "s", "t">>,
      <<"l", "e", "g", "a", "l", " ", "a", "c", "t", "i", "o", "n">>>>

\* lines 176-180
FEARFUL_STEMS ==
    <<<<"a", "f", "r", "a", "i", "d">>, <<"s", "c", "a", "r">>, <<"w", "o", "r", "r">>,
      <<"a", "n", "x", "i", "o", "u", "s">>, <<"n", "e", "r", "v", "o", "u", "s">>,
      <<"p", "a", "n", "i", "c">>, <<"f", "e", "a", "r">>, <<"s", "t", "r", "e", "s", "s">>,
      <<"c", "o", "n", "c", "e", "r", "n">>, <<"u", "n", "c", "e", "r", "t", "a", "i", "n">>,
      <<"c", "o", "n", "f", "u", "s">>, <<"l", "o", "s", "t">>,
      <<"p", "l", "e", "a", "s", " ", "d", "o", "n">>, <<"b", "e", "g">>,
      <<"m", "e", "r", "c", "y">>, <<"p", "l", "e", "a", "s", "e", " ", "d", "o", "n", "'", "t">>,
      <<"p", "l", "e", "a", "s", "e", " ", "s", "t", "o", "p">>>>

\* lines 182-186
URGENT_STEMS ==
    <<<<"i", "m", "m", "e", "d", "i", "a", "t", "e", "l", "y">>, <<"a", "s", "a", "p">>,
      <<"u", "r", "g", "e", "n", "t">>, <<"r", "i", "g", "h", "t", " ", "a", "w", "a", "y">>,
      <<"r", "i", "g", "h", "t", " ", "n", "o", "w">>, <<"q", "u", "i", "c", "k">>,
      <<"d", "e", "a", "d", "l", "i", "n">>, <<"o", "v", "e", "r", "d">>,
      <<"f", "i", "n", "a", "l", " ", "n", "o", "t", "i", "c", "e">>,
      <<"l", "a", "s", "t", " ", "c", "h", "a", "n", "c", "e">>,
      <<"w", "a", "r", "n", "i", "n", "g">>, <<"m", "u", "s", "t", " ", "p", "a", "y">>,
      <<"p", "a", "y", " ", "n", "o", "w">>,
      <<"t", "o", "d", "a", "y", " ", "i", "t", "s", "e", "l", "f">>>>

UpperCase ==
    <<"A", "B", "C", "D", "E", "F", "G", "H", "I", "J", "K", "L", "M",
      "N", "O", "P", "Q", "R", "S", "T", "U", "V", "W", "X", "Y", "Z">>

LowerCase ==
    <<"a", "b", "c", "d", "e", "f", "g", "h", "i", "j", "k", "l", "m",
      "n", "o", "p", "q", "r", "s", "t", "u", "v", "w", "x", "y", "z">>

\* line 201: message.lower()
LowerText(message) ==
    [i \in DOMAIN message |->
        IF \E k \in DOMAIN UpperCase : UpperCase[k] = message[i]
        THEN LowerCase[CHOOSE k \in DOMAIN UpperCase : UpperCase[k] = message[i]]
        ELSE message[i]]

\* the places at which a stem occurs in a text
Occurrences(text, stem) ==
    {i \in 1..(Len(text) - Len(stem) + 1) : SubSeq(text, i, i + Len(stem) - 1) = stem}

\* "s in text_lower"
Contains(text, stem) == Occurrences(text, stem) # {}

\* lines 189-191: sum(1 for s in stems if s in text_lower)
_stem_score(text_lower, stems) ==
    Cardinality({k \in DOMAIN stems : Contains(text_lower, stems[k])})

\* classify_tone without the comparison with the positive score: any angry
\* stem makes the line angry
ClassifyToneAngryFirst(message) ==
    LET text == LowerText(message)
    IN  IF _stem_score(text, ANGRY_STEMS) >= 1 THEN "angry/frustrated"
        ELSE IF _stem_score(text, FEARFUL_STEMS) >= 1 THEN "fearful/anxious"
        ELSE IF _stem_score(text, URGENT_STEMS) >= 1 THEN "urgent"
        ELSE IF _stem_score(text, POSITIVE_STEMS) >= 1 THEN "positive"
        ELSE "neutral"

\* lines 194-217
classify_tone(message) ==
    LET text           == LowerText(message)
        angry_score    == _stem_score(text, ANGRY_STEMS)
        positive_score == _stem_score(text, POSITIVE_STEMS)
        fearful_score  == _stem_score(text, FEARFUL_STEMS)
        urgent_score   == _stem_score(text, URGENT_STEMS)
    IN  IF angry_score >= 1 /\ angry_score >= positive_score THEN "angry/frustrated"
        ELSE IF fearful_score >= 1 THEN "fearful/anxious"
        ELSE IF urgent_score >= 1 THEN "urgent"
        ELSE IF positive_score >= 1 THEN "positive"
        ELSE "neutral"

----------------------------------------------------------------------------
(* Reasoning Orchestrator: compliance_engine.py *)

\* a fallback document that reports the call as out of policy
FallbackMarkedOutOfPolicy(error) ==
    [summary |-> IF error # ""
                 THEN "Analysis could not be completed. Error: " \o error
                 ELSE "Analysis could not be completed due to a processing error.",
     category |-> "Unknown",
     is_within_policy |-> FALSE,
     compliance_flags |-> <<>>,
     policy_violations |-> <<>>,
     risk_escalation_score |-> 0,
     agent_quality_score |-> 50,
     final_status |-> "Pending Review",
     recommended_action |-> "Manual review required."]

\* lines 176-207
_build_fallback_compliance(error) ==
    [summary |-> IF error # ""
                 THEN "Analysis could not be completed. Error: " \o error
                 ELSE "Analysis could not be completed due to a processing error.",
     category |-> "Unknown",
     is_within_policy |-> TRUE,
     compliance_flags |-> <<>>,
     policy_violations |-> <<>>,
     risk_escalation_score |-> 0,
     agent_quality_score |-> 50,
     final_status |-> "Pending Review",
     recommended_action |-> "Manual review required."]

\* the summaries a fallback document can carry
FallbackSummaries ==
    {_build_fallback_compliance(e).summary : e \in {"", "boom", "JSON parse error: boom"}}

\* severities a reasoning output may give a violation; the key may also be
\* missing from the entry
SeverityInputs == {"low", "medium", "high", "critical", "HIGH", "Critical", "severe", None}

\* a violation entry of a reasoning output
ViolationInputs(severities) ==
    {[clause_id |-> c, severity |-> s] : c \in {TIME_CLAUSE_ID, "RBI-REC-01"}, s \in severities}
    \cup {[clause_id |-> c] : c \in {TIME_CLAUSE_ID, "RBI-REC-01"}}

SeqsUpTo(S, n) == UNION {[1..k -> S] : k \in 0..n}

\* the JSON objects a reasoning output may be: is_within_policy present or not
ReasoningDocs(severities, n) ==
    LET lists == SeqsUpTo(ViolationInputs(severities), n)
    IN  {[summary |-> "Agent threatened the customer.", policy_violations |-> l] : l \in lists}
        \cup {[summary |-> "Agent threatened the customer.", policy_violations |-> l,
               is_within_policy |-> b] : l \in lists, b \in BOOLEAN}

\* what one call of the reasoning service may do: the client constructor or
\* the call raises, or the call returns text that is not JSON, JSON that is
\* not an object, an object whose policy_violations has no length, or an
\* object (possibly inside a markdown fence)
FailureKinds == {"ctor_raise", "call_raise", "non_json", "non_object", "bad_fields"}

ServiceBehaviours(docs) ==
    {[kind |-> k, fenced |-> f, doc |-> EmptyDict, error |-> e] :
        k \in FailureKinds, f \in BOOLEAN, e \in {"", "boom"}}
    \cup {[kind |-> "object", fenced |-> f, doc |-> d, error |-> ""] :
        d \in docs, f \in BOOLEAN}

\* lines 167-173 and the result.get(...) of lines 266-269: "returned" with the
\* object, "json_error" (json.JSONDecodeError) or "exception" (any other)
AttemptOutcome(b) ==
    CASE b.kind = "object"   -> "returned"
      [] b.kind = "non_json" -> "json_error"
      [] OTHER               -> "exception"

\* lines 135-142: t.get("speaker", "unknown").upper() raises on a null speaker
_format_transcript_raises(transcript_threads) ==
    \E i \in DOMAIN transcript_threads :
        Get(transcript_threads[i], "speaker", "unknown") = None

\* lines 245-254: the rendered prompt
Prompt(transcript_threads, clauses, tvr) ==
    [transcript     |-> transcript_threads,
     clauses        |-> clauses,
     ist_time       |-> Get(tvr, "ist_time", "unknown"),
     time_violation |-> IF Get(tvr, "violation", FALSE) THEN "YES" ELSE "NO"]

\* line 229 and line 279
PRIMARY_MODEL == "models/gemini-2.5-flash"
SECONDARY_MODEL == "models/gemini-2.0-flash"

\* lines 258-264 and 280-286: one generate_content call
Attempt(model_name, prompt, outcome) ==
    [model_name |-> model_name, prompt |-> prompt,
     response_mime_type |-> "application/json", temperature |-> "0.05",
     outcome |-> outcome]

ErrorText(b) == IF b.kind = "non_json" THEN "JSON parse error: boom" ELSE b.error

\* lines 228-275, the part of run_compliance_analysis up to the end of the
\* primary attempt: [next, attempts, outcome, result]
PrimaryAttempt(transcript_threads, clauses, tvr, b) ==
    LET prompt == Prompt(transcript_threads, clauses, tvr)
        made   == <<Attempt(PRIMARY_MODEL, prompt, AttemptOutcome(b))>>
    IN  IF b.kind = "ctor_raise" \/ _format_transcript_raises(transcript_threads)
        THEN [next |-> "raise", attempts |-> <<>>, outcome |-> "raised",
              result |-> EmptyDict]
        ELSE CASE AttemptOutcome(b) = "returned" ->
                    [next |-> "return", attempts |-> made, outcome |-> "returned",
                     result |-> b.doc]
               [] AttemptOutcome(b) = "json_error" ->
                    [next |-> "return", attempts |-> made, outcome |-> "returned",
                     result |-> _build_fallback_compliance(ErrorText(b))]
               [] OTHER ->
                    [next |-> "retry", attempts |-> made, outcome |-> "none",
                     result |-> EmptyDict]

\* lines 276-299: the retry. The constructor is inside the try, so a raising
\* constructor is a failed attempt like a raising call.
SecondaryAttempt(made, b) ==
    LET outcome == AttemptOutcome(b)
    IN  [attempts |-> Append(made, Attempt(SECONDARY_MODEL, made[1].prompt,
                                           outcome)),
         outcome |-> "returned",
         result |-> IF outcome = "returned"
                    THEN b.doc
                    ELSE _build_fallback_compliance(ErrorText(b))]

----------------------------------------------------------------------------
(* Output Assembler: json_builder.build_output_json *)

\* str(x).lower() on the severities and the speakers of the model
Lower(s) ==
    CASE s = "HIGH"     -> "high"
      [] s = "Critical" -> "critical"
      [] s = None       -> "none"
      [] s = "Agent"    -> "agent"
      [] OTHER          -> s

_severity_values == {"low", "medium", "high", "critical"}

\* d[key] = value
SetKey(d, key, value) ==
    [k \in DOMAIN d \cup {key} |-> IF k = key THEN value ELSE d[k]]

\* lines 120-123
NormalizeSeverity(v) ==
    LET sev == Lower(Get(v, "severity", ""))
    IN  IF sev \notin _severity_values THEN SetKey(v, "severity", "medium") ELSE v

\* lines 129-140
TemporalViolation(tvr) ==
    [clause_id      |-> TIME_CLAUSE_ID,
     rule_name      |-> Get(tvr, "rule_name", "Operating Hours Compliance"),
     severity       |-> "high",
     description    |-> Get(tvr, "description", ""),
     timestamp      |-> Get(tvr, "ist_time", "??:??"),
     evidence_quote |-> "Call timestamp detected as " \o Get(tvr, "ist_time", "unknown")
                        \o " IST."]

\* lines 126-140
InjectTemporal(violations, tvr) ==
    LET existing_ids == {Get(v, "clause_id", None) : v \in Range(violations)}
    IN  IF Get(tvr, "violation", FALSE) /\ TIME_CLAUSE_ID \notin existing_ids
        THEN Append(violations, TemporalViolation(tvr))
        ELSE violations

\* lines 116-140: the final violation list
FinalViolations(compliance_result, tvr) ==
    LET given == Get(compliance_result, "policy_violations", <<>>)
    IN  InjectTemporal([i \in DOMAIN given |-> NormalizeSeverity(given[i])], tvr)

\* has_violations taken from the list as the reasoning step gave it, before the
\* temporal injection
HasViolationsBeforeInjection(compliance_result, tvr) ==
    Len(Get(compliance_result, "policy_violations", <<>>)) > 0

\* line 142
HasViolations(compliance_result, tvr) ==
    Len(FinalViolations(compliance_result, tvr)) > 0

\* lines 79-89, 116-160 and 162-174: the parts of the document the compliance
\* result and the temporal verdict decide
build_output_json(compliance_result, tvr) ==
    LET policy_violations == FinalViolations(compliance_result, tvr)
        has_violations    == HasViolations(compliance_result, tvr)
        given_flags       == Get(compliance_result, "compliance_flags", <<>>)
    IN  [intelligence_summary |->
            [summary  |-> Get(compliance_result, "summary", "No summary available."),
             category |-> Get(compliance_result, "category", "Debt Recovery")],
         compliance_and_risk_audit |->
            [is_within_policy  |-> Get(compliance_result, "is_within_policy",
                                       ~has_violations),
             compliance_flags  |-> IF has_violations /\ given_flags = <<>>
                                   THEN <<"Policy Violation Detected">>
                                   ELSE given_flags,
             policy_violations |-> policy_violations],
         performance_and_outcomes |->
            [final_status |-> Get(compliance_result, "final_status", "Pending Review"),
             recommended_action |->
                 Get(compliance_result, "recommended_action", "Review manually.")]]

\* A JSON value that is not an object (a string, a number) standing where the
\* code expects an object: only that it has no .get matters.
NotAnObject == [json |-> "string"]

IsObject(v) == "json" \notin DOMAIN v

\* JSON null as the message of a turn
NullMessage == <<None>>

\* the first turn of a loop that raises (raises[i]: turn i raises), or 0
FirstRaising(raises) ==
    IF \E i \in DOMAIN raises : raises[i]
    THEN CHOOSE i \in DOMAIN raises : raises[i] /\ \A j \in 1..(i - 1) : ~raises[j]
    ELSE 0

\* turn i of a loop is completed when the loop raises at turn k (0: never)
Completed(i, k) == k = 0 \/ i < k

\* lines 13-18
_complexity_from_turns(turn_count) ==
    IF turn_count <= 6 THEN "low"
    ELSE IF turn_count <= 14 THEN "medium"
    ELSE "high"

\* audio_processor.py lines 220-228: turn.get on a turn that is no object and
\* message.lower() on a null message raise
ToneRaisesOn(turn) == ~IsObject(turn) \/ Get(turn, "message", <<>>) = NullMessage

AddTone(turn) == SetKey(turn, "tone", classify_tone(Get(turn, "message", <<>>)))

\* the turns are rewritten in place, up to the turn on which the loop raises
add_tone_to_transcript(transcript_threads) ==
    LET k == FirstRaising([i \in DOMAIN transcript_threads |->
                              ToneRaisesOn(transcript_threads[i])])
    IN  [i \in DOMAIN transcript_threads |->
            IF Completed(i, k) THEN AddTone(transcript_threads[i])
            ELSE transcript_threads[i]]

\* lines 60-66
ConfigApplied(client_config) ==
    [business_domain    |-> Get(client_config, "business_domain", "Banking / Debt Recovery"),
     monitored_products |-> Get(client_config, "monitored_products", <<>>),
     active_policy_set  |-> Get(client_config, "active_policy_set", "RBI_Compliance_v2.1"),
     risk_triggers      |-> Get(client_config, "risk_triggers", <<>>)]

\* lines 69-77: entity.get raises on an entity that is no object
CleanedEntities(entities) ==
    [i \in DOMAIN entities |->
        [text |-> Get(entities[i], "text", ""),
         id   |-> Get(entities[i], "id", "entity_" \o Pad2(i - 1)),
         type |-> Get(entities[i], "type", "UNKNOWN")]]

\* lines 92-98: a point without a truthy acoustic_arousal takes the arousal
\* of the segment with the same timestamp, or "Low"
FillArousal(acoustic_segments, point) ==
    IF Truthy(Get(point, "acoustic_arousal", None)) THEN point
    ELSE LET at == {i \in DOMAIN acoustic_segments :
                      acoustic_segments[i].timestamp = Get(point, "timestamp", "")}
             \* the dict comprehension of line 95 keeps the last segment of a timestamp
             last == CHOOSE i \in at : \A j \in at : j <= i
         IN  SetKey(point, "acoustic_arousal",
                    IF at = {} THEN "Low" ELSE acoustic_segments[last].acoustic_arousal)

\* lines 21-186, the whole call: whether it raises, the document it returns,
\* and its arguments as it leaves them. The lists of the transcription result
\* and of the reasoning result are rewritten in place; a list that is missing
\* is a fresh default and no argument changes. The loops over entities (72),
\* graph points (96) and violations (120) raise on an element that is no
\* object.
BuildOutputJson(request_id, transcription, acoustic_segments, compliance_result, tvr, client_config) ==
    LET turns      == Get(transcription, "transcript_threads", <<>>)
        entities   == Get(transcription, "entities", <<>>)
        graph      == Get(compliance_result, "emotional_graph", <<>>)
        violations == Get(compliance_result, "policy_violations", <<>>)
        NoObjectIn(list) == FirstRaising([i \in DOMAIN list |-> ~IsObject(list[i])])
        \* the stage at which the call raises
        raisedAt   == IF FirstRaising([i \in DOMAIN turns |-> ToneRaisesOn(turns[i])]) # 0
                      THEN "tone"
                      ELSE IF NoObjectIn(entities) # 0 THEN "entities"
                      ELSE IF acoustic_segments # <<>> /\ NoObjectIn(graph) # 0 THEN "graph"
                      ELSE IF NoObjectIn(violations) # 0 THEN "violations"
                      ELSE "none"
        toned      == add_tone_to_transcript(turns)
        filled     == IF acoustic_segments # <<>> /\ raisedAt \notin {"tone", "entities"}
                      THEN [i \in DOMAIN graph |->
                               IF Completed(i, NoObjectIn(graph))
                               THEN FillArousal(acoustic_segments, graph[i])
                               ELSE graph[i]]
                      ELSE graph
        normalized == IF raisedAt \in {"none", "violations"}
                      THEN [i \in DOMAIN violations |->
                               IF Completed(i, NoObjectIn(violations))
                               THEN NormalizeSeverity(violations[i])
                               ELSE violations[i]]
                      ELSE violations
        final      == IF raisedAt = "none" THEN InjectTemporal(normalized, tvr)
                      ELSE normalized
        trAfter    == IF "transcript_threads" \in DOMAIN transcription
                      THEN SetKey(transcription, "transcript_threads", toned)
                      ELSE transcription
        crGraph    == IF "emotional_graph" \in DOMAIN compliance_result
                      THEN SetKey(compliance_result, "emotional_graph", filled)
                      ELSE compliance_result
        crAfter    == IF "policy_violations" \in DOMAIN compliance_result
                      THEN SetKey(crGraph, "policy_violations", final)
                      ELSE crGraph
        core       == build_output_json(compliance_result, tvr)
    IN  [raised |-> raisedAt # "none",
         transcription_result |-> trAfter,
         compliance_result    |-> crAfter,
         document |->
            IF raisedAt # "none" THEN EmptyDict
            ELSE [request_id |-> request_id,
                  metadata |->
                     [detected_languages |->
                          Get(transcription, "detected_languages", <<"English">>),
                      conversation_complexity |-> _complexity_from_turns(Len(toned))],
                  config_applied |-> ConfigApplied(client_config),
                  intelligence_summary |->
                     [summary  |-> core.intelligence_summary.summary,
                      category |-> Get(compliance_result, "category",
                                       Get(transcription, "category", "Debt Recovery")),
                      entities |-> CleanedEntities(entities)],
                  emotional_and_tonal_analysis |-> [emotional_graph |-> filled],
                  compliance_and_risk_audit |-> core.compliance_and_risk_audit,
                  transcript_threads |-> toned,
                  performance_and_outcomes |-> core.performance_and_outcomes]]

----------------
(* The request: main.analyze_call and main._run_analysis_pipeline *)

SUPPORTED_EXTENSIONS == {".mp3", ".wav", ".ogg", ".m4a", ".flac", ".webm", ".mp4"}

\* uploads: the file suffix, and the client_config form field as the kind of
\* text it holds
Suffixes == {".mp3", ".exe"}
ConfigKinds == {"absent", "object", "not_object", "malformed"}

\* transcribe_and_analyze's results: a non-empty list of turns; the service
\* may leave a turn's speaker null
TranscriptionResults ==
    {[transcript_threads |->
         <<[speaker |-> s, message |-> "Pay today or we call the police.",
            timestamp |-> "00:00"]>>] : s \in {"agent", None}}

\* the severities and lists of the reasoning outputs that travel through the
\* whole pipeline
PipelineDocs == ReasoningDocs({"high", "HIGH"}, MaxPipelineViolations)

HttpError(status) == [kind |-> "error", status |-> status, body |-> EmptyDict]

\* lines 224-248: refuse, or start the pipeline
analyze_call ==
    /\ phase = "serving"
    /\ pc \in {"idle", "done"}
    /\ \E suffix \in Suffixes, config \in ConfigKinds :
         IF GOOGLE_API_KEY = ""
         THEN pc' = "done" /\ response' = HttpError(503)
         ELSE IF suffix \notin SUPPORTED_EXTENSIONS
         THEN pc' = "done" /\ response' = HttpError(400)
         ELSE IF config \in {"not_object", "malformed"}
         THEN pc' = "done" /\ response' = HttpError(400)
         ELSE pc' = "transcribe" /\ response' = Idle
    /\ transcription_result' = EmptyDict
    /\ time_violation_result' = EmptyDict
    /\ all_clauses' = <<>>
    /\ attempts' = <<>>
    /\ compliance' = NoCompliance
    /\ retrieval' = NoRetrieval
    /\ UNCHANGED processVars
    /\ UNCHANGED <<callVars, detailVars>>

\* lines 309-315
transcribe_and_analyze ==
    /\ pc = "transcribe"
    /\ transcription_result' \in TranscriptionResults
    /\ pc' = "time_check"
    /\ UNCHANGED <<time_violation_result, all_clauses, attempts, compliance, response, retrieval>>
    /\ UNCHANGED processVars
    /\ UNCHANGED <<callVars, detailVars>>

\* lines 317-324
time_check ==
    /\ pc = "time_check"
    /\ \E utc_minute \in CallTimesUTC :
         time_violation_result' = check_time_violation(utc_minute)
    /\ pc' = "retrieve"
    /\ UNCHANGED <<transcription_result, all_clauses, attempts, compliance, response, retrieval>>
    /\ UNCHANGED processVars
    /\ UNCHANGED <<callVars, detailVars>>

\* rag_engine.py lines 261-265: t.get("speaker", "").lower() raises on a null
\* speaker; the line is reached only when the handle is set (lines 249-251)
AgentFilterRaises(store, transcript_threads) ==
    /\ store.set
    /\ \E i \in DOMAIN transcript_threads :
          Get(transcript_threads[i], "speaker", "") = None

\* main.py lines 337-342: an id is kept the first time it is seen
RECURSIVE FirstSeen(_, _)
FirstSeen(ids, seen_clauses) ==
    IF ids = <<>> THEN <<>>
    ELSE IF Head(ids) \in seen_clauses
         THEN FirstSeen(Tail(ids), seen_clauses)
         ELSE <<Head(ids)>> \o FirstSeen(Tail(ids), seen_clauses \cup {Head(ids)})

\* rag_engine.py lines 129-175: the documents of the client index, custom
\* rules first, then risk triggers
ClientDocuments(client_config) ==
    LET custom_rules  == Get(client_config, "custom_rules", <<>>)
        risk_triggers == Get(client_config, "risk_triggers", <<>>)
    IN  [i \in DOMAIN custom_rules |->
            [clause_id |-> Get(custom_rules[i], "rule_id", "CUSTOM-XX"),
             rule_name |-> Get(custom_rules[i], "rule_name", ""),
             source    |-> "client_config"]]
        \o [i \in DOMAIN risk_triggers |->
            [clause_id |-> "CLIENT-TRIGGER",
             rule_name |-> risk_triggers[i],
             source    |-> "client_config"]]

\* rag_engine.py lines 257-259: a client index is built when the config is
\* not empty and gives at least one document
HasClientStore(client_config) ==
    client_config # EmptyDict /\ ClientDocuments(client_config) # <<>>

\* rag_engine.py lines 261-271: the agent's messages, or every message when
\* no turn is the agent's
AgentMessages(transcript_threads) ==
    LET spoken(t)  == Truthy(Get(t, "message", None))
        byAgent(t) == Lower(Get(t, "speaker", "")) = "agent" /\ spoken(t)
        agent      == SelectSeq(transcript_threads, byAgent)
        chosen     == IF agent # <<>> THEN agent
                      ELSE SelectSeq(transcript_threads, spoken)
    IN  [i \in DOMAIN chosen |-> chosen[i].message]

\* rag_engine.py lines 279-293: what a document of the primary index becomes.
\* A legacy chunk has no clause_id; _extract_clause_id (322-326) finds none in
\* a chunk without a heading.
RbiHit(entry) ==
    LET id   == Get(entry, "clause_id", None)
        name == Get(entry, "rule_name", None)
    IN  [store     |-> "rbi",
         key       |-> IF Truthy(id) THEN id ELSE "UNKNOWN",
         clause_id |-> IF Truthy(id) THEN id ELSE "UNKNOWN",
         rule_name |-> IF Truthy(name) THEN name ELSE "Policy Clause",
         source    |-> Get(entry, "source", "rbi_policies")]

\* rag_engine.py lines 300-314: what a document of the client index becomes
ClientHit(doc) ==
    LET clause_id == Get(doc, "clause_id", "CLIENT-XX")
    IN  [store     |-> "client",
         key       |-> "CLIENT-" \o Get(doc, "rule_name", clause_id),
         clause_id |-> clause_id,
         rule_name |-> Get(doc, "rule_name", "Client Rule"),
         source    |-> "client_config"]

\* rag_engine.py lines 276-316: the documents the loop meets, in order: for
\* each message the answer of the primary retriever, then the answer of the
\* client retriever; a query that raises is skipped (lines 294 and 315)
RECURSIVE Hits(_, _, _)
Hits(n, with_client, service) ==
    IF n = 0 THEN <<>>
    ELSE LET rbi    == service.rbi[n]
             client == service.client[n]
         IN  Hits(n - 1, with_client, service)
             \o (IF rbi.ok THEN [i \in DOMAIN rbi.docs |-> RbiHit(rbi.docs[i])] ELSE <<>>)
             \o (IF with_client /\ client.ok
                 THEN [i \in DOMAIN client.docs |-> ClientHit(client.docs[i])]
                 ELSE <<>>)

\* rag_engine.py lines 273-274, 284-293 and 305-314: one set of seen keys for
\* both stores
RECURSIVE Deduplicate(_, _)
Deduplicate(hits, seen_clauses) ==
    IF hits = <<>> THEN <<>>
    ELSE LET h == Head(hits)
         IN  IF h.key \in seen_clauses
             THEN Deduplicate(Tail(hits), seen_clauses)
             ELSE <<[clause_id |-> h.clause_id, rule_name |-> h.rule_name,
                     source |-> h.source]>>
                  \o Deduplicate(Tail(hits), seen_clauses \cup {h.key})

\* rag_engine.py lines 228-319: [raised, clauses]. Nothing when the handle is
\* unset; load_client_rules (line 258) and the agent filter (lines 261-265)
\* are outside every try.
retrieve_relevant_clauses(store, transcript_threads, client_config, service) ==
    IF ~store.set THEN [raised |-> FALSE, clauses |-> <<>>]
    ELSE IF HasClientStore(client_config) /\ ~service.load_ok
    THEN [raised |-> TRUE, clauses |-> <<>>]
    ELSE IF AgentFilterRaises(store, transcript_threads)
    THEN [raised |-> TRUE, clauses |-> <<>>]
    ELSE [raised |-> FALSE,
          clauses |-> Deduplicate(Hits(Len(AgentMessages(transcript_threads)),
                                       HasClientStore(client_config), service), {})]

\* what the embedding and similarity service may do during one retrieval:
\* building the client index works or raises; each query raises or answers
\* with the documents of its index, nearest first (k = 8 and k = 4 cover the
\* indexes of the model)
Orderings(docs) ==
    {[i \in DOMAIN docs |-> docs[p[i]]] : p \in Permutations(DOMAIN docs)}

Answers(docs) ==
    {[ok |-> FALSE, docs |-> <<>>]} \cup {[ok |-> TRUE, docs |-> o] : o \in Orderings(docs)}

ServiceAnswers(store, transcript_threads, client_config) ==
    LET n == IF AgentFilterRaises(store, transcript_threads) THEN 0
             ELSE Len(AgentMessages(transcript_threads))
    IN  {[load_ok |-> l, rbi |-> r, client |-> c] :
            l \in BOOLEAN,
            r \in [1..n -> Answers(store.entries)],
            c \in [1..n -> Answers(ClientDocuments(client_config))]}

\* main.py lines 337-342: the full corpus, then the retrieved clauses whose id
\* is not yet in it
MergeClauses(corpus, rag) == corpus \o FirstSeen(rag, Range(corpus))

\* the points of a retrieval at which the embedding service was called and
\* failed
EmbeddingFailures(store, transcript_threads, client_config, service) ==
    LET with_client == HasClientStore(client_config)
        n == IF AgentFilterRaises(store, transcript_threads) THEN 0
             ELSE Len(AgentMessages(transcript_threads))
    IN  IF ~store.set THEN {}
        ELSE IF with_client /\ ~service.load_ok THEN {"load_client_rules"}
        ELSE {"rbi_query" : i \in {j \in 1..n : ~service.rbi[j].ok}}
             \cup {"client_query" : i \in {j \in 1..n : with_client /\ ~service.client[j].ok}}

\* the merged configs of the requests: the default alone, or with a client's
\* risk triggers
PipelineConfigs ==
    {[active_policy_set |-> "RBI"],
     [active_policy_set |-> "RBI", risk_triggers |-> <<"threat", "jail">>]}

\* the service during a request: each call fails, or answers in index order
PipelineAnswers(docs) == {[ok |-> FALSE, docs |-> <<>>], [ok |-> TRUE, docs |-> docs]}

PipelineServiceAnswers(store, transcript_threads, client_config) ==
    LET n == IF AgentFilterRaises(store, transcript_threads) THEN 0
             ELSE Len(AgentMessages(transcript_threads))
    IN  {[load_ok |-> l, rbi |-> r, client |-> c] :
            l \in BOOLEAN,
            r \in [1..n -> PipelineAnswers(store.entries)],
            c \in [1..n -> PipelineAnswers(ClientDocuments(client_config))]}

\* lines 326-343; an exception of the retriever leaves the pipeline through
\* lines 375-377
retrieve ==
    /\ pc = "retrieve"
    /\ \E client_config \in PipelineConfigs :
       \E service \in PipelineServiceAnswers(rbi_vectorstore,
                                             transcription_result.transcript_threads,
                                             client_config) :
         LET r == retrieve_relevant_clauses(rbi_vectorstore,
                                            transcription_result.transcript_threads,
                                            client_config, service)
         IN  /\ retrieval' =
                   [ran |-> TRUE, client_config |-> client_config,
                    failures |-> EmbeddingFailures(rbi_vectorstore,
                                                   transcription_result.transcript_threads,
                                                   client_config, service),
                    raised |-> r.raised, clauses |-> r.clauses]
             /\ IF r.raised
                THEN /\ pc' = "done"
                     /\ response' = HttpError(500)
                     /\ UNCHANGED all_clauses
                ELSE /\ pc' = "primary"
                     /\ all_clauses' =
                           MergeClauses(ClauseIds(get_all_policy_clauses(policies)),
                                        ClauseIds(r.clauses))
                     /\ UNCHANGED response
    /\ UNCHANGED <<transcription_result, time_violation_result, attempts, compliance>>
    /\ UNCHANGED processVars
    /\ UNCHANGED <<callVars, detailVars>>

\* lines 345-355 with compliance_engine.py lines 228-275; an exception leaves
\* the pipeline through lines 375-377
run_compliance_analysis ==
    /\ pc = "primary"
    /\ \E b \in ServiceBehaviours(PipelineDocs) :
         LET r == PrimaryAttempt(transcription_result.transcript_threads, all_clauses,
                                 time_violation_result, b)
         IN  /\ attempts' = r.attempts
             /\ compliance' = [outcome |-> r.outcome, result |-> r.result]
             /\ pc' = CASE r.next = "raise"  -> "done"
                        [] r.next = "return" -> "assemble"
                        [] OTHER             -> "secondary"
             /\ response' = IF r.next = "raise" THEN HttpError(500) ELSE response
    /\ UNCHANGED <<transcription_result, time_violation_result, all_clauses, retrieval>>
    /\ UNCHANGED processVars
    /\ UNCHANGED <<callVars, detailVars>>

\* compliance_engine.py lines 276-299
retry_with_fallback_model ==
    /\ pc = "secondary"
    /\ \E b \in ServiceBehaviours(PipelineDocs) :
         LET r == SecondaryAttempt(attempts, b)
         IN  /\ attempts' = r.attempts
             /\ compliance' = [outcome |-> r.outcome, result |-> r.result]
    /\ pc' = "assemble"
    /\ UNCHANGED <<transcription_result, time_violation_result, all_clauses, response, retrieval>>
    /\ UNCHANGED processVars
    /\ UNCHANGED <<callVars, detailVars>>

\* lines 357-371
assemble ==
    /\ pc = "assemble"
    /\ response' = [kind |-> "audit", status |-> 200,
                    body |-> build_output_json(compliance.result, time_violation_result)]
    /\ pc' = "done"
    /\ UNCHANGED <<transcription_result, time_violation_result, all_clauses, attempts,
                   compliance, retrieval>>
    /\ UNCHANGED processVars
    /\ UNCHANGED <<callVars, detailVars>>

Next ==
    \/ lifespan
    \/ Shutdown
    \/ analyze_call
    \/ transcribe_and_analyze
    \/ time_check
    \/ retrieve
    \/ run_compliance_analysis
    \/ retry_with_fallback_model
    \/ assemble

Spec == Init /\ [][Next]_vars

----------------------------------------------------------------------------
(* Requests served by a process whose startup succeeded: the key is set and  *)
(* the index was built from a non-empty corpus.                              *)

InitServing ==
    /\ GOOGLE_API_KEY = "key"
    /\ policies \in {corpus \in Corpora : get_all_policy_clauses(corpus) # <<>>}
    /\ persisted = [exists |-> TRUE, entries |-> _parse_clause_documents(policies)]
    /\ rbi_vectorstore = [set |-> TRUE, entries |-> _parse_clause_documents(policies)]
    /\ lifecycle = <<"Absent", "Building", "Ready">>
    /\ initLog = [called |-> TRUE, found |-> NoIndex, deleted |-> FALSE,
                  parsed |-> TRUE, raised |-> FALSE]
    /\ phase = "serving"
    /\ RequestInit
    /\ CallInit

NextServing ==
    \/ analyze_call
    \/ transcribe_and_analyze
    \/ time_check
    \/ retrieve
    \/ run_compliance_analysis
    \/ retry_with_fallback_model
    \/ assemble

SpecServing == InitServing /\ [][NextServing]_vars

----------------------------------------------------------------------------
(* The Output Assembler on every reasoning output: a request that has reached *)
(* line 358 of main.py, with any JSON object the reasoning step can return.   *)

AssemblerDocs ==
    ReasoningDocs(SeverityInputs, MaxViolations)
    \cup {_build_fallback_compliance(e) : e \in {"", "boom"}}

InitAssembler ==
    /\ GOOGLE_API_KEY = "key"
    /\ policies = <<RegularFile(1)>>
    /\ persisted = [exists |-> TRUE, entries |-> _parse_clause_documents(policies)]
    /\ rbi_vectorstore = [set |-> TRUE, entries |-> _parse_clause_documents(policies)]
    /\ lifecycle = <<"Absent", "Building", "Ready">>
    /\ initLog = [called |-> TRUE, found |-> NoIndex, deleted |-> FALSE,
                  parsed |-> TRUE, raised |-> FALSE]
    /\ phase = "serving"
    /\ pc = "assemble"
    /\ transcription_result \in {r \in TranscriptionResults :
                                    ~_format_transcript_raises(r.transcript_threads)}
    /\ time_violation_result \in TimeVerdicts
    /\ all_clauses = ClauseIds(get_all_policy_clauses(policies))
    /\ attempts = <<Attempt(PRIMARY_MODEL,
                            Prompt(transcription_result.transcript_threads, all_clauses,
                                   time_violation_result),
                            "returned")>>
    /\ \E d \in AssemblerDocs : compliance = [outcome |-> "returned", result |-> d]
    /\ response = Idle
    /\ retrieval = NoRetrieval
    /\ CallInit
    /\ DetailInit

SpecAssembler == InitAssembler /\ [][assemble]_vars

----------------------------------------------------------------------------
(* The service functions called on their own, each on every input of a      *)
(* bounded set.  The process is not serving requests meanwhile.             *)

ProcessNotServing ==
    /\ GOOGLE_API_KEY = "key"
    /\ persisted = NoIndex
    /\ rbi_vectorstore = [set |-> FALSE, entries |-> <<>>]
    /\ lifecycle = <<>>
    /\ initLog = NotCalled
    /\ phase = "boot"

NotServing ==
    /\ ProcessNotServing
    /\ RequestInit

Value(v) == [kind |-> "value", value |-> v]

Raised == [kind |-> "raised", value |-> None]

\* the marker lines of a corpus, file by file and top to bottom
RECURSIVE MarkerIds(_)
MarkerIds(corpus) ==
    IF corpus = <<>> THEN <<>>
    ELSE LET isMarker(l) == l.kind = "marker"
             markers == SelectSeq(Head(corpus).lines, isMarker)
         IN  [i \in DOMAIN markers |-> markers[i].clause_id] \o MarkerIds(Tail(corpus))

Distinct(ids) == \A i, j \in DOMAIN ids : i # j => ids[i] # ids[j]

LineInputs ==
    {TextLine}
    \cup {MarkerLine(ClauseName(i)) : i \in 1..MaxClauses}
    \cup {MentionLine(ClauseName(i)) : i \in 1..MaxClauses}

FileInputs(k) ==
    {PolicyFile(PolicyFileName(k), lines, terminated) :
        lines \in SeqsUpTo(LineInputs, MaxLines), terminated \in BOOLEAN}

\* policy directories of up to MaxFiles files in which every clause_id heads
\* at most one marker line, as the Clause record asks of a corpus
CorpusInputs ==
    LET dirs == UNION {{[k \in 1..n |-> f[k]] :
                          f \in [1..n -> UNION {FileInputs(k) : k \in 1..n}]} :
                       n \in 0..MaxFiles}
    IN  {corpus \in dirs :
            /\ \A k \in DOMAIN corpus : corpus[k].name = PolicyFileName(k)
            /\ Distinct(MarkerIds(corpus))}

InitParser ==
    /\ NotServing
    /\ policies \in CorpusInputs
    /\ args = [fn |-> "get_all_policy_clauses"]
    /\ returned = NotReturned

\* rag_engine.py lines 187-225 on POLICIES_DIR
Call_get_all_policy_clauses ==
    /\ args.fn = "get_all_policy_clauses"
    /\ returned = NotReturned
    /\ returned' = Value(get_all_policy_clauses(policies))
    /\ UNCHANGED <<args, processVars, requestVars, detailVars>>

SpecParser == InitParser /\ [][Call_get_all_policy_clauses]_vars

\* a process serving with the index built from a corpus
ServingOn(corpus) ==
    /\ GOOGLE_API_KEY = "key"
    /\ policies = corpus
    /\ persisted = [exists |-> TRUE, entries |-> _parse_clause_documents(corpus)]
    /\ rbi_vectorstore = [set |-> TRUE, entries |-> _parse_clause_documents(corpus)]
    /\ lifecycle = <<"Absent", "Building", "Ready">>
    /\ initLog = [called |-> TRUE, found |-> NoIndex, deleted |-> FALSE,
                  parsed |-> TRUE, raised |-> FALSE]
    /\ phase = "serving"
    /\ RequestInit

\* corpora of one or two clauses; a clause id may begin like a client key
RetrieverCorpora ==
    {<<PolicyFile(PolicyFileName(2), <<MarkerLine("RBI-REC-01"), TextLine>>, TRUE)>>,
     <<PolicyFile(PolicyFileName(2),
                  <<MarkerLine("RBI-REC-01"), TextLine, MarkerLine("CLIENT-threat"), TextLine>>,
                  TRUE)>>}

TurnInputs ==
    {[speaker |-> s, message |-> "Pay today or we call the police.", timestamp |-> "00:00"] :
        s \in {"Agent", "customer"}}

TranscriptInputs == SeqsUpTo(TurnInputs, MaxTurns) \ {<<>>}

\* merged configs: no rules, risk triggers, a custom rule named like a trigger,
\* a custom rule under the id of a policy clause
ClientConfigInputs ==
    {[active_policy_set |-> "RBI"],
     [active_policy_set |-> "RBI", risk_triggers |-> <<"threat">>],
     [active_policy_set |-> "RBI", risk_triggers |-> <<"threat", "police">>],
     [active_policy_set |-> "RBI", risk_triggers |-> <<"threat">>,
      custom_rules |-> <<[rule_id |-> "CUSTOM-01", rule_name |-> "threat"]>>],
     [active_policy_set |-> "RBI",
      custom_rules |-> <<[rule_id |-> "RBI-REC-01", rule_name |-> "No threats"]>>]}

InitRetriever ==
    /\ \E corpus \in RetrieverCorpora : ServingOn(corpus)
    /\ \E t \in TranscriptInputs, c \in ClientConfigInputs :
         \E service \in ServiceAnswers(rbi_vectorstore, t, c) :
            args = [fn |-> "retrieve_relevant_clauses", transcript_threads |-> t,
                    client_config |-> c, service |-> service]
    /\ returned = NotReturned

\* rag_engine.py lines 228-319
Call_retrieve_relevant_clauses ==
    /\ args.fn = "retrieve_relevant_clauses"
    /\ returned = NotReturned
    /\ LET r == retrieve_relevant_clauses(rbi_vectorstore, args.transcript_threads,
                                          args.client_config, args.service)
       IN  returned' = IF r.raised THEN Raised ELSE Value(r.clauses)
    /\ UNCHANGED <<args, processVars, requestVars, detailVars>>

SpecRetriever == InitRetriever /\ [][Call_retrieve_relevant_clauses]_vars

\* what a window's signal may give: ratios around 0.35 and 0.65 and above the
\* cap, pitches around 210 Hz and none
FeatureInputs ==
    {[ratio |-> r, pitch |-> p] :
        r \in {34000, 34996, 35000, 64996, 65000, 120000},
        p \in {0, 209996, 210000}}

\* lengths of the last window: nothing, just under and at half a second, just
\* under and at five seconds, a whole window
TailLengths == {0, 7999, 8000, 79999, 80000, 160000}

RecordingLengths ==
    {k * SEGMENT_DURATION_SECONDS * SAMPLE_RATE + tail :
        k \in 0..(MaxSegments - 1), tail \in TailLengths}

\* a file librosa cannot be imported for, a file it cannot decode, and the
\* decoded recordings
AudioInputs ==
    {[librosa_available |-> FALSE, decodable |-> TRUE, total_samples |-> 0, features |-> <<>>],
     [librosa_available |-> TRUE, decodable |-> FALSE, total_samples |-> 0, features |-> <<>>]}
    \cup {[librosa_available |-> TRUE, decodable |-> TRUE, total_samples |-> t, features |-> f] :
             t \in RecordingLengths, f \in SeqsUpTo(FeatureInputs, MaxSegments)}

InitAudio ==
    /\ NotServing
    /\ policies = <<>>
    /\ \E audio \in AudioInputs :
          /\ audio.decodable /\ audio.librosa_available =>
                Len(audio.features) = NumSegments(audio.total_samples)
          /\ args = [fn |-> "analyze_audio", audio |-> audio]
    /\ returned = NotReturned

\* audio_processor.py lines 49-151
Call_analyze_audio ==
    /\ args.fn = "analyze_audio"
    /\ returned = NotReturned
    /\ returned' = Value(analyze_audio(args.audio))
    /\ UNCHANGED <<args, processVars, requestVars, detailVars>>

SpecAudio == InitAudio /\ [][Call_analyze_audio]_vars

\* the words of the lines: two positive, two angry ("threaten" holds the stems
\* threaten and threat), a fearful, an urgent and a neutral one
WordInputs ==
    {<<"T", "h", "a", "n", "k">>,
     <<"g", "o", "o", "d">>,
     <<"f", "r", "a", "u", "d">>,
     <<"t", "h", "r", "e", "a", "t", "e", "n">>,
     <<"a", "f", "r", "a", "i", "d">>,
     <<"u", "r", "g", "e", "n", "t">>,
     <<"h", "e", "l", "l", "o">>}

\* the words of a line, a blank between two of them
RECURSIVE Join(_)
Join(ws) ==
    IF ws = <<>> THEN <<>>
    ELSE IF Len(ws) = 1 THEN Head(ws)
    ELSE Head(ws) \o <<" ">> \o Join(Tail(ws))

\* lines of up to MaxWords words, the empty line among them
MessageInputs == {Join(ws) : ws \in SeqsUpTo(WordInputs, MaxWords)}

InitTone ==
    /\ NotServing
    /\ policies = <<>>
    /\ \E message \in MessageInputs : args = [fn |-> "classify_tone", message |-> message]
    /\ returned = NotReturned

\* audio_processor.py lines 194-217
Call_classify_tone ==
    /\ args.fn = "classify_tone"
    /\ returned = NotReturned
    /\ returned' = Value(classify_tone(args.message))
    /\ UNCHANGED <<args, processVars, requestVars, detailVars>>

SpecTone == InitTone /\ [][Call_classify_tone]_vars

\* the dates of the timestamps: 0001-01-01, 2026-02-20 and 9999-12-31
DayInputs == {1, 739667, 3652059}

\* their wall-clock minutes: 00:00, 02:00, 02:30, 07:59, 08:00, 10:00,
\* 13:29, 13:30, 18:59, 19:00 and 23:59
MinuteInputs == {0, 120, 150, 479, 480, 600, 809, 810, 1139, 1140, 1439}

\* their zones: none, Z, +00:00, +05:30, -08:00 and +14:00
ZoneInputs ==
    {[zone |-> "naive", offset |-> 0], [zone |-> "Z", offset |-> 0]}
    \cup {[zone |-> "offset", offset |-> o] : o \in {0, 330, 0 - 480, 840}}

\* what a caller may pass as call_timestamp_utc
TimestampInputs ==
    {[kind |-> "iso", day |-> d, minute |-> m, zone |-> z.zone, offset |-> z.offset] :
        d \in DayInputs, m \in MinuteInputs, z \in ZoneInputs}
    \cup {[kind |-> "text", encodable |-> e] : e \in BOOLEAN}
    \cup {[kind |-> "not_a_string"]}

InitTime ==
    /\ NotServing
    /\ policies = <<>>
    /\ \E call_timestamp_utc \in TimestampInputs :
          args = [fn |-> "check_time_violation", call_timestamp_utc |-> call_timestamp_utc]
    /\ returned = NotReturned

\* audio_processor.py lines 231-287
Call_check_time_violation ==
    /\ args.fn = "check_time_violation"
    /\ returned = NotReturned
    /\ LET r == TimeViolationOf(args.call_timestamp_utc)
       IN  returned' = IF r.raised THEN Raised ELSE Value(r.result)
    /\ UNCHANGED <<args, processVars, requestVars, detailVars>>

SpecTime == InitTime /\ [][Call_check_time_violation]_vars

\* the turns a transcription can hold: lines of an agent and of a customer,
\* and a customer turn whose message is JSON null
BuilderTurns ==
    {[speaker |-> "agent", message |-> <<"t", "h", "r", "e", "a", "t", "e", "n">>,
      timestamp |-> "00:05"],
     [speaker |-> "customer", message |-> <<"h", "e", "l", "l", "o">>,
      timestamp |-> "00:20"],
     [speaker |-> "customer", message |-> NullMessage, timestamp |-> "00:20"]}

\* what transcribe_and_analyze returns: at least one turn (transcriber.py line
\* 244) and an entities list (line 257), as the transcription service gave it
BuilderTranscriptions ==
    {[transcript_threads |-> t, entities |-> e, category |-> "Debt Recovery"] :
        t \in SeqsUpTo(BuilderTurns, MaxTurns) \ {<<>>},
        e \in {<<>>, <<[text |-> "5000"]>>, <<NotAnObject>>}}

\* what run_compliance_analysis returns: the JSON object of the reasoning
\* service as it is (compliance_engine.py line 264), or its fallback
BuilderDocs ==
    {[summary |-> "Agent threatened the customer.", policy_violations |-> l,
      emotional_graph |-> g] :
        l \in SeqsUpTo({[clause_id |-> "RBI-REC-01", severity |-> "high"],
                        [clause_id |-> "RBI-REC-01", severity |-> "severe"],
                        NotAnObject}, 1),
        g \in {<<>>,
               <<[timestamp |-> "00:00", sentiment |-> "negative"]>>,
               <<[timestamp |-> "00:30", acoustic_arousal |-> "High"]>>}}
    \cup {[summary |-> "Agent threatened the customer."],
          _build_fallback_compliance("boom")}

InitBuilder ==
    /\ NotServing
    /\ policies = <<>>
    /\ \E tr \in BuilderTranscriptions, cr \in BuilderDocs, tvr \in TimeVerdicts,
          config \in PipelineConfigs :
          args = [fn |-> "build_output_json",
                  request_id |-> "req-1",
                  transcription_result |-> tr,
                  acoustic_segments |-> <<SyntheticSegment>>,
                  compliance_result |-> cr,
                  time_violation_result |-> tvr,
                  client_config |-> config]
    /\ returned = NotReturned

\* json_builder.py lines 21-186: the arguments are the caller's objects, and
\* the call leaves them as it rewrote them
Call_build_output_json ==
    /\ args.fn = "build_output_json"
    /\ returned = NotReturned
    /\ LET r == BuildOutputJson(args.request_id, args.transcription_result,
                                args.acoustic_segments, args.compliance_result,
                                args.time_violation_result, args.client_config)
       IN  /\ returned' = IF r.raised THEN Raised ELSE Value(r.document)
           /\ args' = [args EXCEPT !.transcription_result = r.transcription_result,
                                   !.compliance_result = r.compliance_result]
    /\ UNCHANGED <<processVars, requestVars, detailVars>>

SpecBuilder == InitBuilder /\ [][Call_build_output_json]_vars

----------------------------------------------------------------------------
(* One request followed through the stages of main.analyze_call and          *)
(* main._run_analysis_pipeline: the upload, the temporary file, the merged   *)
(* configuration, each service call, the answer and the clean-up.            *)

\* JSON values of a client configuration as json.loads gives them: a list, a
\* string (iterating it gives its characters), a number
ListOf(items) == [type |-> "list", items |-> items]

StringOf(characters) == [type |-> "string", items |-> characters]

NumberValue == [type |-> "number", items |-> <<>>]

\* main.py lines 40-42: config/default_rbi_config.json, with the values of
\* the examples of lines 125-160
DefaultConfig ==
    [business_domain    |-> "Banking / Debt Recovery",
     monitored_products |-> <<"Credit Card">>,
     active_policy_set  |-> "RBI_Compliance_v2.1",
     risk_triggers      |-> <<"Legal Threats", "Jail Mention">>,
     custom_rules       |-> <<[rule_id |-> "CUSTOM-01", rule_name |-> "No Script Deviation"]>>]

ClientRule == [rule_id |-> "CLIENT-01", rule_name |-> "No Calls To Employer"]

\* the JSON objects a client sends: list fields of the right type, a number or
\* a string where a list belongs
ClientConfigs ==
    {EmptyDict,
     [active_policy_set |-> "Client_v1", business_domain |-> "Telecom"],
     [active_policy_set |-> "Client_v1",
      risk_triggers |-> ListOf(<<"Jail Mention", "Coercion">>),
      custom_rules  |-> ListOf(<<ClientRule>>)],
     [risk_triggers |-> ListOf(<<"Coercion", "Coercion">>)],
     [custom_rules |-> ListOf(<<>>)],
     [risk_triggers |-> NumberValue],
     [risk_triggers |-> StringOf(<<"o", "k">>)],
     [custom_rules |-> StringOf(<<"o", "k">>)]}

\* the client_config form field by what json.loads makes of it (lines 239-246)
ConfigFields ==
    {[kind |-> "absent"], [kind |-> "not_json"], [kind |-> "not_object"]}
    \cup {[kind |-> "object", value |-> c] : c \in ClientConfigs}

UploadInputs ==
    {[suffix |-> x, client_config |-> f] : x \in Suffixes, f \in ConfigFields}

\* list(set): the elements once each, in an order the program does not decide
ListOfSet(S) == {o \in [1..Cardinality(S) -> S] : Range(o) = S}

\* lines 290-298: unpacking a number, and adding a value that is no list to a
\* list, raise TypeError
MergeRaises(config_upload) ==
    \/ /\ "risk_triggers" \in DOMAIN config_upload
       /\ config_upload["risk_triggers"].type = "number"
    \/ /\ "custom_rules" \in DOMAIN config_upload
       /\ config_upload["custom_rules"].type # "list"

\* client triggers in place of the union with the default's
MergedConfigsClientTriggersOnly(default_config, config_upload) ==
    LET spread == [k \in DOMAIN default_config \cup DOMAIN config_upload |->
                      IF k \in DOMAIN config_upload THEN config_upload[k]
                      ELSE default_config[k]]
        triggers == IF "risk_triggers" \in DOMAIN config_upload
                    THEN ListOfSet(Range(config_upload["risk_triggers"].items))
                    ELSE {Get(default_config, "risk_triggers", <<>>)}
        rules == IF "custom_rules" \in DOMAIN config_upload
                 THEN Get(default_config, "custom_rules", <<>>)
                      \o config_upload["custom_rules"].items
                 ELSE Get(default_config, "custom_rules", <<>>)
    IN  {[k \in DOMAIN spread |->
            IF k = "risk_triggers" THEN t
            ELSE IF k = "custom_rules" THEN rules
            ELSE spread[k]] : t \in triggers}

\* lines 287-298: the configurations the merge can give when it does not raise
MergedConfigs(default_config, config_upload) ==
    LET spread == [k \in DOMAIN default_config \cup DOMAIN config_upload |->
                      IF k \in DOMAIN config_upload THEN config_upload[k]
                      ELSE default_config[k]]
        triggers == IF "risk_triggers" \in DOMAIN config_upload
                    THEN ListOfSet(Range(Get(default_config, "risk_triggers", <<>>))
                                   \cup Range(config_upload["risk_triggers"].items))
                    ELSE {Get(default_config, "risk_triggers", <<>>)}
        rules == IF "custom_rules" \in DOMAIN config_upload
                 THEN Get(default_config, "custom_rules", <<>>)
                      \o config_upload["custom_rules"].items
                 ELSE Get(default_config, "custom_rules", <<>>)
    IN  {[k \in DOMAIN spread |->
            IF k = "risk_triggers" THEN t
            ELSE IF k = "custom_rules" THEN rules
            ELSE spread[k]] : t \in triggers}

\* transcriber.py lines 117-139
_build_fallback_transcript ==
    [detected_languages |-> <<"English">>,
     transcript_threads |->
        <<[speaker |-> "agent",
           message |-> <<"H", "e", "l", "l", "o", ",", " ", "I", " ", "a", "m", " ", "c", "a",
                       "l", "l", "i", "n", "g", " ", "r", "e", "g", "a", "r", "d", "i", "n",
                       "g", " ", "y", "o", "u", "r", " ", "o", "u", "t", "s", "t", "a", "n",
                       "d", "i", "n", "g", " ", "d", "u", "e", "s", ".">>,
           timestamp |-> "00:05"],
          [speaker |-> "customer",
           message |-> <<"I", " ", "h", "a", "v", "e", " ", "a", "l", "r", "e", "a", "d", "y",
                       " ", "p", "a", "i", "d", ".", " ", "P", "l", "e", "a", "s", "e", " ",
                       "c", "h", "e", "c", "k", ".">>,
           timestamp |-> "00:20"]>>,
     entities |-> <<>>,
     category |-> "Debt Recovery"]

\* transcriber.py lines 164-169, on the timestamps of the model
to_seconds(ts) ==
    CASE ts = "00:00" -> 0
      [] ts = "00:05" -> 5
      [] ts = "00:20" -> 20
      [] OTHER        -> 0 - 1

\* transcriber.py lines 171-173
to_mmss(sec) ==
    LET nonneg == IF sec < 0 THEN 0 ELSE sec
    IN  Pad2(nonneg \div 60) \o ":" \o Pad2(nonneg % 60)

Sorted(ints) == \A i, j \in DOMAIN ints : i < j => ints[i] <= ints[j]

\* transcriber.py lines 156-191, the duration in whole seconds
_fix_timestamps(transcript_threads, duration_seconds) ==
    IF transcript_threads = <<>> \/ duration_seconds <= 0 THEN transcript_threads
    ELSE LET raw == [i \in DOMAIN transcript_threads |->
                        to_seconds(Get(transcript_threads[i], "timestamp", "00:00"))]
             n == Len(transcript_threads)
             is_broken == \/ Cardinality(Range(raw)) = 1
                          \/ ~Sorted(raw)
                          \/ raw[n] * 10 > duration_seconds * 11
         IN  IF is_broken
             THEN [i \in DOMAIN transcript_threads |->
                      SetKey(transcript_threads[i], "timestamp",
                             to_mmss(((i - 1) * duration_seconds) \div n))]
             ELSE transcript_threads

\* the turns the transcription service hears in the audio
HeardTurns ==
    {<<[speaker |-> "agent", message |-> <<"t", "h", "r", "e", "a", "t", "e", "n">>,
        timestamp |-> "00:05"]>>,
     <<[speaker |-> "customer", message |-> <<"h", "e", "l", "l", "o">>,
        timestamp |-> "00:20"],
       [speaker |-> "agent", message |-> <<"u", "r", "g", "e", "n", "t">>,
        timestamp |-> "00:05"]>>}

\* what the transcription service does for a request: it answers with turns,
\* answers with an object without turns, answers with text that is not JSON,
\* fails (upload, poll or call raises), or leaves the file PROCESSING or
\* FAILED
TranscriptionAnswers ==
    {[kind |-> "turns", turns |-> t] : t \in HeardTurns}
    \cup {[kind |-> k, turns |-> <<>>] : k \in {"no_turns", "not_json", "raises", "not_active"}}

\* the audio's duration as librosa gives it, 0 when it cannot (lines 146-153)
DurationInputs == {0, 30}

\* transcriber.py lines 224-270: what transcribe_and_analyze returns
TranscriptionOf(answer, duration_seconds) ==
    IF answer.kind \in {"not_json", "raises", "not_active"} THEN _build_fallback_transcript
    ELSE [detected_languages |-> <<"English">>,
          transcript_threads |->
             _fix_timestamps(IF answer.turns = <<>>
                             THEN _build_fallback_transcript.transcript_threads
                             ELSE answer.turns,
                             duration_seconds),
          entities |-> <<>>,
          category |-> "Unknown"]

\* the reasoning outputs of the requests followed here
RequestDocs ==
    {[summary |-> "Agent threatened the customer.",
      policy_violations |-> <<[clause_id |-> "RBI-REC-01", severity |-> "high"]>>],
     _build_fallback_compliance("boom")}

InitRequest ==
    /\ GOOGLE_API_KEY = "key"
    /\ policies = <<RegularFile(1)>>
    /\ persisted = [exists |-> TRUE, entries |-> _parse_clause_documents(policies)]
    /\ rbi_vectorstore = [set |-> TRUE, entries |-> _parse_clause_documents(policies)]
    /\ lifecycle = <<"Absent", "Building", "Ready">>
    /\ initLog = [called |-> TRUE, found |-> NoIndex, deleted |-> FALSE,
                  parsed |-> TRUE, raised |-> FALSE]
    /\ phase = "serving"
    /\ pc = "received"
    /\ upload \in UploadInputs
    /\ tmp_audio_path = None
    /\ tempdir = {}
    /\ merged_config = EmptyDict
    /\ calls = <<>>
    /\ heard = NotHeard
    /\ transcriber = NotTranscribing
    /\ workers = <<>>
    /\ transcription_result = EmptyDict
    /\ time_violation_result = EmptyDict
    /\ all_clauses = <<>>
    /\ attempts = <<>>
    /\ compliance = NoCompliance
    /\ response = Idle
    /\ retrieval = NoRetrieval
    /\ CallInit

\* what a stage of the request leaves alone
StageFrame ==
    UNCHANGED <<processVars, callVars, transcriberVars, workerVars, upload, all_clauses,
                attempts, retrieval>>

\* main.py lines 373-377: an exception of a stage becomes HTTP 500, and the
\* finally block follows
StageRaises ==
    /\ response' = HttpError(500)
    /\ pc' = "finally"

\* main.py lines 224-248: the checks of analyze_call
Receive ==
    /\ pc = "received"
    /\ IF upload.suffix \notin SUPPORTED_EXTENSIONS
          \/ upload.client_config.kind \in {"not_json", "not_object"}
       THEN pc' = "answered" /\ response' = HttpError(400)
       ELSE pc' = "save" /\ response' = Idle
    /\ UNCHANGED <<tmp_audio_path, tempdir, merged_config, calls, heard,
                   transcription_result, time_violation_result, compliance>>
    /\ StageFrame

TempFileName == "vigilant_req-1_.mp3"

\* main.py lines 275-281: the temporary file cannot be created, or is created
\* and the copy of the upload raises, or is created and written
SaveAudio ==
    /\ pc = "save"
    /\ calls' = Append(calls, "save")
    /\ \E created \in BOOLEAN, written \in BOOLEAN :
          /\ IF created
             THEN tmp_audio_path' = TempFileName /\ tempdir' = tempdir \cup {TempFileName}
             ELSE UNCHANGED <<tmp_audio_path, tempdir>>
          /\ IF created /\ written
             THEN pc' = "merge" /\ UNCHANGED response
             ELSE StageRaises
    /\ UNCHANGED <<merged_config, heard, transcription_result, time_violation_result,
                   compliance>>
    /\ StageFrame

\* main.py lines 284-302
MergeConfig ==
    /\ pc = "merge"
    /\ calls' = Append(calls, "merge")
    /\ LET field == upload.client_config
       IN  IF field.kind = "absent"
           THEN merged_config' = DefaultConfig /\ pc' = "acoustic" /\ UNCHANGED response
           ELSE IF MergeRaises(field.value)
           THEN UNCHANGED merged_config /\ StageRaises
           ELSE /\ merged_config' \in MergedConfigs(DefaultConfig, field.value)
                /\ pc' = "acoustic"
                /\ UNCHANGED response
    /\ UNCHANGED <<tmp_audio_path, tempdir, heard, transcription_result,
                   time_violation_result, compliance>>
    /\ StageFrame

\* main.py line 306: analyze_audio gives segments whatever the file holds
AcousticAnalysis ==
    /\ pc = "acoustic"
    /\ calls' = Append(calls, "analyze_audio")
    /\ pc' = "transcription"
    /\ UNCHANGED <<tmp_audio_path, tempdir, merged_config, heard, transcription_result,
                   time_violation_result, compliance, response>>
    /\ StageFrame

\* main.py lines 311-315
Transcription ==
    /\ pc = "transcription"
    /\ calls' = Append(calls, "transcribe_and_analyze")
    /\ \E answer \in TranscriptionAnswers, duration_seconds \in DurationInputs :
          /\ heard' = answer
          /\ transcription_result' = TranscriptionOf(answer, duration_seconds)
    /\ pc' = "time"
    /\ UNCHANGED <<tmp_audio_path, tempdir, merged_config, time_violation_result,
                   compliance, response>>
    /\ StageFrame

\* main.py lines 318-324
TimeCheck ==
    /\ pc = "time"
    /\ calls' = Append(calls, "check_time_violation")
    /\ time_violation_result' \in TimeVerdicts
    /\ pc' = "retrieval"
    /\ UNCHANGED <<tmp_audio_path, tempdir, merged_config, heard, transcription_result,
                   compliance, response>>
    /\ StageFrame

\* main.py lines 328-343: the clauses are gathered, or a call of the stage
\* raises (the policy directory cannot be read)
Retrieval ==
    /\ pc = "retrieval"
    /\ calls' = Append(calls, "retrieve_relevant_clauses")
    /\ \E ok \in BOOLEAN :
          IF ok THEN pc' = "reasoning" /\ UNCHANGED response ELSE StageRaises
    /\ UNCHANGED <<tmp_audio_path, tempdir, merged_config, heard, transcription_result,
                   time_violation_result, compliance>>
    /\ StageFrame

\* main.py lines 347-355: run_compliance_analysis returns an object, or
\* raises before its try block (compliance_engine.py lines 228-250)
Reasoning ==
    /\ pc = "reasoning"
    /\ calls' = Append(calls, "run_compliance_analysis")
    /\ \/ \E d \in RequestDocs :
             /\ compliance' = [outcome |-> "returned", result |-> d]
             /\ pc' = "assembly"
             /\ UNCHANGED response
       \/ /\ compliance' = [outcome |-> "raised", result |-> EmptyDict]
          /\ StageRaises
    /\ UNCHANGED <<tmp_audio_path, tempdir, merged_config, heard, transcription_result,
                   time_violation_result>>
    /\ StageFrame

\* main.py lines 358-371: build_output_json on the request's objects, which
\* it rewrites, and the answer
Assembly ==
    /\ pc = "assembly"
    /\ calls' = Append(calls, "build_output_json")
    /\ LET r == BuildOutputJson("req-1", transcription_result, <<SyntheticSegment>>,
                                compliance.result, time_violation_result, merged_config)
       IN  /\ transcription_result' = r.transcription_result
           /\ compliance' = [compliance EXCEPT !.result = r.compliance_result]
           /\ IF r.raised
              THEN StageRaises
              ELSE /\ response' = [kind |-> "audit", status |-> 200, body |-> r.document]
                   /\ pc' = "finally"
    /\ UNCHANGED <<tmp_audio_path, tempdir, merged_config, heard, time_violation_result>>
    /\ StageFrame

\* main.py lines 378-384: the file is unlinked if it was created and is still
\* there; an unlink that raises is passed over
Finally ==
    /\ pc = "finally"
    /\ IF tmp_audio_path # None /\ tmp_audio_path \in tempdir
       THEN \E unlinked \in BOOLEAN :
               tempdir' = IF unlinked THEN tempdir \ {tmp_audio_path} ELSE tempdir
       ELSE UNCHANGED tempdir
    /\ pc' = "answered"
    /\ UNCHANGED <<tmp_audio_path, merged_config, calls, heard, transcription_result,
                   time_violation_result, compliance, response>>
    /\ StageFrame

NextRequest ==
    \/ Receive
    \/ SaveAudio
    \/ MergeConfig
    \/ AcousticAnalysis
    \/ Transcription
    \/ TimeCheck
    \/ Retrieval
    \/ Reasoning
    \/ Assembly
    \/ Finally

SpecRequest == InitRequest /\ [][NextRequest]_vars

----------------------------------------------------------------------------
(* transcriber.transcribe_and_analyze step by step: the upload, the wait for *)
(* the file, the call of the reasoning service and the clean-up.             *)

\* transcriber.py line 217
max_wait == 60

\* transcriber.py lines 220-221: the seconds slept before each poll
POLL_SECONDS == 2

\* the states the file service reports for an uploaded file
FileStates == {"PROCESSING", "ACTIVE", "FAILED"}

\* line 219 with the budget left out
KeepsWaitingWhileProcessing(state, waited) == state = "PROCESSING"

\* line 219: the condition of the polling loop
KeepsWaiting(state, waited) == state = "PROCESSING" /\ waited < max_wait

InitTranscriber ==
    /\ ProcessNotServing
    /\ policies = <<>>
    /\ RequestIdle
    /\ StageInit
    /\ workers = <<>>
    /\ CallInit
    /\ transcriber = [pc |-> "upload", uploaded |-> FALSE, state |-> None, waited |-> 0,
                      polls |-> 0, log |-> <<>>, result |-> EmptyDict]

TranscriberFrame ==
    UNCHANGED <<processVars, requestVars, callVars, stageVars, workerVars>>

\* lines 211-214: upload_file raises, or gives the file in some state
upload_file ==
    /\ transcriber.pc = "upload"
    /\ \/ transcriber' = [transcriber EXCEPT !.log = Append(@, "upload_file"),
                                             !.result = _build_fallback_transcript,
                                             !.pc = "finally"]
       \/ \E state \in FileStates :
             transcriber' = [transcriber EXCEPT !.log = Append(@, "upload_file"),
                                                !.uploaded = TRUE,
                                                !.state = state,
                                                !.pc = "wait"]
    /\ TranscriberFrame

\* lines 219-222: one turn of the loop; get_file raises (lines 268-270), or
\* reports the state of the file
get_file ==
    /\ transcriber.pc = "wait"
    /\ KeepsWaiting(transcriber.state, transcriber.waited)
    /\ \/ transcriber' = [transcriber EXCEPT !.waited = @ + POLL_SECONDS,
                                             !.polls = @ + 1,
                                             !.log = Append(@, "get_file"),
                                             !.result = _build_fallback_transcript,
                                             !.pc = "finally"]
       \/ \E state \in FileStates :
             transcriber' = [transcriber EXCEPT !.waited = @ + POLL_SECONDS,
                                                !.polls = @ + 1,
                                                !.log = Append(@, "get_file"),
                                                !.state = state]
    /\ TranscriberFrame

\* lines 224-226: after the loop, a file that is not ACTIVE ends the call
\* with the fallback transcript
check_active ==
    /\ transcriber.pc = "wait"
    /\ ~KeepsWaiting(transcriber.state, transcriber.waited)
    /\ transcriber' =
          IF transcriber.state # "ACTIVE"
          THEN [transcriber EXCEPT !.result = _build_fallback_transcript, !.pc = "finally"]
          ELSE [transcriber EXCEPT !.pc = "generate"]
    /\ TranscriberFrame

\* lines 230-270: the call of the reasoning service and what is made of its
\* answer
generate_content ==
    /\ transcriber.pc = "generate"
    /\ \E answer \in {a \in TranscriptionAnswers : a.kind # "not_active"},
          duration_seconds \in DurationInputs :
          transcriber' = [transcriber EXCEPT !.log = Append(@, "generate_content"),
                                             !.result = TranscriptionOf(answer, duration_seconds),
                                             !.pc = "finally"]
    /\ TranscriberFrame

\* lines 271-276: delete_file is called for the uploaded file, whatever it
\* does; without an upload audio_file_obj is unbound and no call is made
delete_file ==
    /\ transcriber.pc = "finally"
    /\ transcriber' = [transcriber EXCEPT !.log = IF transcriber.uploaded
                                                  THEN Append(@, "delete_file")
                                                  ELSE @,
                                          !.pc = "returned"]
    /\ TranscriberFrame

NextTranscriber ==
    \/ upload_file
    \/ get_file
    \/ check_active
    \/ generate_content
    \/ delete_file

SpecTranscriber == InitTranscriber /\ [][NextTranscriber]_vars

----------------------------------------------------------------------------
(* Requests side by side in one process: each is accepted, runs the stages   *)
(* before the retrieval, and reads the index handle in                       *)
(* rag_engine.retrieve_relevant_clauses, in any interleaving with the others *)

\* requests followed side by side
NumRequests == 2

\* requests are taken at any time, startup included
CanAcceptDuringStartup == TRUE

\* main.py lines 56-69 and 84: the server takes requests once the startup
\* part of lifespan has returned
CanAccept == phase = "serving"

WorkerFrame ==
    UNCHANGED <<processVars, requestVars, callVars, stageVars, transcriberVars>>

\* main.py lines 224-248: a request arrives; without a key it is refused
Accept ==
    /\ CanAccept
    /\ Len(workers) < NumRequests
    /\ workers' = Append(workers, [pc |-> IF GOOGLE_API_KEY = "" THEN "done" ELSE "stages",
                                   reads |-> <<>>])
    /\ WorkerFrame

\* main.py lines 275-324: the stages before the retrieval; a stage may raise
RunStages ==
    /\ \E w \in DOMAIN workers :
          /\ workers[w].pc = "stages"
          /\ \E next \in {"retrieve", "done"} : workers' = [workers EXCEPT ![w].pc = next]
    /\ WorkerFrame

\* rag_engine.py lines 249-251: the handle is read; without a store no
\* clause is retrieved
ReadHandle ==
    /\ \E w \in DOMAIN workers :
          /\ workers[w].pc = "retrieve"
          /\ workers' = [workers EXCEPT
                            ![w].reads = Append(@, rbi_vectorstore),
                            ![w].pc = IF rbi_vectorstore.set THEN "query" ELSE "done"]
    /\ WorkerFrame

\* rag_engine.py line 254: the handle is read again for the retriever, and
\* the rest of the request follows
UseHandle ==
    /\ \E w \in DOMAIN workers :
          /\ workers[w].pc = "query"
          /\ workers' = [workers EXCEPT ![w].reads = Append(@, rbi_vectorstore),
                                        ![w].pc = "done"]
    /\ WorkerFrame

NextConcurrent ==
    \/ lifespan
    \/ Accept
    \/ RunStages
    \/ ReadHandle
    \/ UseHandle

SpecConcurrent == Init /\ [][NextConcurrent]_vars

----------------------------------------------------------------------------
(* Properties *)

IsFallback(doc) == Get(doc, "summary", "") \in FallbackSummaries

Audit == response.body.compliance_and_risk_audit

Returned == response.kind = "audit"

BothAttemptsFailed ==
    /\ Len(attempts) = 2
    /\ attempts[1].outcome # "returned"
    /\ attempts[2].outcome # "returned"

TemporalEntries(violations) ==
    {i \in DOMAIN violations : Get(violations[i], "clause_id", None) = TIME_CLAUSE_ID}

\* C1: once run_compliance_analysis has returned after making a primary
\* attempt, at most two attempts were made; a failed primary attempt (raising,
\* or output that is not parseable JSON) was followed by exactly one attempt
\* against the secondary model with the same prompt and the same generation
\* constraints; and the fallback document is returned only after that
\* secondary attempt has failed too.
C1_RetryOnEveryPrimaryFailure ==
    (compliance.outcome = "returned" /\ attempts # <<>>) =>
        /\ Len(attempts) <= 2
        /\ attempts[1].model_name = PRIMARY_MODEL
        /\ attempts[1].outcome # "returned" =>
              /\ Len(attempts) = 2
              /\ attempts[2].model_name = SECONDARY_MODEL
              /\ attempts[2].prompt = attempts[1].prompt
              /\ attempts[2].response_mime_type = attempts[1].response_mime_type
              /\ attempts[2].temperature = attempts[1].temperature
        /\ IsFallback(compliance.result) => BothAttemptsFailed

\* C2: run_compliance_analysis never lets an exception cross its boundary,
\* whatever the reasoning service does and whatever the earlier stages
\* produced: it always ends by returning a document.
C2_NeverRaises == compliance.outcome # "raised"

\* C3 as stated: whenever both reasoning attempts failed, the returned
\* AuditDocument has is_within_policy = true, an empty policy_violations list
\* and a non-empty failure annotation, for every call timestamp.
C3_FallbackAuditHasNoViolations ==
    (Returned /\ BothAttemptsFailed) =>
        /\ Audit.is_within_policy = TRUE
        /\ Audit.policy_violations = <<>>
        /\ response.body.intelligence_summary.summary # ""
        /\ response.body.intelligence_summary.summary \in FallbackSummaries

\* C3 amended: whenever both reasoning attempts failed, the returned
\* AuditDocument has is_within_policy = true and a non-empty failure
\* annotation, and its policy_violations list holds no entry of the reasoning
\* step: it is empty when the temporal verdict is no violation, and holds
\* exactly the one synthesized INTERNAL-TIME-01 entry when it is a violation.
C3_FallbackAudit ==
    (Returned /\ BothAttemptsFailed) =>
        /\ Audit.is_within_policy = TRUE
        /\ response.body.intelligence_summary.summary # ""
        /\ response.body.intelligence_summary.summary \in FallbackSummaries
        /\ IF time_violation_result.violation
           THEN /\ Len(Audit.policy_violations) = 1
                /\ Audit.policy_violations[1].clause_id = "INTERNAL-TIME-01"
                /\ Audit.policy_violations[1].severity = "high"
           ELSE Audit.policy_violations = <<>>

\* C3 witness: both attempts failed on a call the Temporal Policy Checker
\* flags, and the document was returned
C3_Witness ==
    /\ Returned
    /\ BothAttemptsFailed
    /\ time_violation_result.violation
    /\ Len(Audit.policy_violations) = 1

\* C4: when the temporal verdict is a violation, the final policy_violations
\* list holds exactly one entry whose clause_id is INTERNAL-TIME-01, whatever
\* list the reasoning step returned.
C4_TemporalEntryExactlyOnce ==
    (Returned /\ time_violation_result.violation) =>
        Cardinality(TemporalEntries(Audit.policy_violations)) = 1

\* C5: in every returned AuditDocument each violation's severity is one of
\* low, medium, high, critical: a canonical input severity is passed through,
\* every other input (absent, null, mis-spelled, differently cased) has become
\* "medium", and normalizing the result again changes nothing.
C5_SeverityCanonical ==
    Returned =>
        LET given == Get(compliance.result, "policy_violations", <<>>)
            final == Audit.policy_violations
        IN  /\ \A i \in DOMAIN final :
                  /\ "severity" \in DOMAIN final[i]
                  /\ final[i].severity \in _severity_values
                  /\ NormalizeSeverity(final[i]) = final[i]
            /\ \A i \in DOMAIN given :
                  final[i].severity =
                     IF Get(given[i], "severity", None) \in _severity_values
                     THEN given[i].severity
                     ELSE "medium"

\* C6: is_within_policy is the value the reasoning output supplied when it
\* supplied one, and otherwise the negation of "the final violation list (after
\* severity normalization and temporal injection) is non-empty".
C6_WithinPolicyDerivation ==
    Returned =>
        Audit.is_within_policy =
           IF "is_within_policy" \in DOMAIN compliance.result
           THEN compliance.result.is_within_policy
           ELSE ~(Len(Audit.policy_violations) > 0)

\* C6 witness: the reasoning output supplied neither the field nor a violation,
\* and the temporal injection alone decided the value
C6_Witness ==
    /\ Returned
    /\ "is_within_policy" \notin DOMAIN compliance.result
    /\ Get(compliance.result, "policy_violations", <<>>) = <<>>
    /\ time_violation_result.violation
    /\ Audit.is_within_policy = FALSE

\* C7: every returned AuditDocument is internally consistent:
\* is_within_policy = true implies that policy_violations is empty.
C7_WithinPolicyImpliesNoViolations ==
    Returned => (Audit.is_within_policy = TRUE => Audit.policy_violations = <<>>)

\* C8: initialize_policy_store accepts the persisted index (Loading ->
\* ValidCache -> Ready, nothing parsed or rebuilt) if and only if its first
\* sampled entry carries a non-empty clause_id; in every other case where the
\* persisted path exists, the build is run, and a fresh index is built only
\* after the location has been deleted.
C8_AcceptedOrDeleted ==
    initLog.called =>
        /\ (lifecycle = <<"Loading", "ValidCache", "Ready">> /\ ~initLog.parsed)
              <=> (initLog.found.exists /\ SampleIsPerClause(initLog.found))
        /\ (initLog.found.exists /\ ~SampleIsPerClause(initLog.found)) =>
              initLog.parsed
        /\ (initLog.found.exists /\ ~SampleIsPerClause(initLog.found)
               /\ rbi_vectorstore.set) =>
              initLog.deleted

\* C9: whenever the process-wide index handle is set, every entry of the index
\* carries a non-empty clause_id in its metadata.
C9_ReadyEntriesCarryClauseId ==
    rbi_vectorstore.set =>
        \A i \in DOMAIN rbi_vectorstore.entries :
            Truthy(Get(rbi_vectorstore.entries[i], "clause_id", None))

\* C10: while the clause index is not Ready (missing credentials, or the
\* initialization failed), every finished request was refused with an error
\* and no AuditDocument was produced.
C10_RefusedWhileNotReady ==
    (pc = "done" /\ ~rbi_vectorstore.set) => response.kind = "error"

\* C20: for every policy corpus, get_all_policy_clauses returns exactly one
\* record per marker line CLAUSE <id>: <name>, in file-then-position order,
\* with pairwise distinct clause_ids, and the empty list on a corpus without
\* markers.
C20_OneRecordPerMarker ==
    (args.fn = "get_all_policy_clauses" /\ returned.kind = "value") =>
        /\ ClauseIds(returned.value) = MarkerIds(policies)
        /\ Distinct(ClauseIds(returned.value))
        /\ MarkerIds(policies) = <<>> => returned.value = <<>>

\* C11: within one call of retrieve_relevant_clauses the results are the hits
\* in first-seen order, and a hit is dropped only as a duplicate of an earlier
\* hit of the same source: a primary-index hit iff an earlier primary hit had
\* the same clause_id, a client-index hit iff an earlier client hit had the
\* same rule_name; a primary clause_id and a client key never suppress each
\* other.
C11_DroppedOnlyAsSameSourceDuplicate ==
    (args.fn = "retrieve_relevant_clauses" /\ returned.kind = "value") =>
        LET hits == Hits(Len(AgentMessages(args.transcript_threads)),
                         HasClientStore(args.client_config), args.service)
            same(a, b) == /\ a.store = b.store
                          /\ IF a.store = "rbi" THEN a.clause_id = b.clause_id
                                                ELSE a.rule_name = b.rule_name
            numbered == [i \in DOMAIN hits |-> [i |-> i, hit |-> hits[i]]]
            first(x) == \A j \in 1..(x.i - 1) : ~same(hits[j], x.hit)
            kept == SelectSeq(numbered, first)
        IN  returned.value =
               [k \in DOMAIN kept |->
                   [clause_id |-> kept[k].hit.clause_id,
                    rule_name |-> kept[k].hit.rule_name,
                    source    |-> kept[k].hit.source]]

\* C12: the clause set handed to the Reasoning Orchestrator (the full corpus
\* of get_all_policy_clauses united with the retriever's result) never holds
\* two clauses with the same clause_id, for every corpus, transcript and
\* client configuration, and in every request of a process.
C12_MergedClauseIdsDistinct ==
    (retrieval.ran /\ ~retrieval.raised) => Distinct(all_clauses)

\* C13: a failure of the embedding/similarity service at any point of clause
\* retrieval (building the client index, querying the primary index, querying
\* the client index) never aborts the request: retrieve_relevant_clauses
\* returns a clause list and the request goes on to the reasoning step.
C13_RetrievalFailureNeverAborts ==
    (retrieval.ran /\ retrieval.failures # {}) =>
        /\ ~retrieval.raised
        /\ pc = "done" => compliance # NoCompliance

\* the recording was decoded
Decoded == args.audio.librosa_available /\ args.audio.decodable

\* the windows of the recording, numbered from 0
Windows == 0..(NumSegments(args.audio.total_samples) - 1)

\* the windows of at least half a second, the shortest the segmenter keeps
UsableWindows ==
    {i \in Windows : 2 * SegmentLength(args.audio.total_samples, i) >= SAMPLE_RATE}

C15_SegmentIffHalfWindow ==
    (args.fn = "analyze_audio" /\ returned.kind = "value" /\ Decoded) =>
        LET half == (SEGMENT_DURATION_SECONDS * SAMPLE_RATE) \div 2
            qualifying == {i \in Windows :
                              SegmentLength(args.audio.total_samples, i) >= half}
            stamps == {returned.value[k].timestamp : k \in DOMAIN returned.value}
        IN  IF qualifying = {}
            THEN returned.value = <<SyntheticSegment>>
            ELSE /\ Len(returned.value) = Cardinality(qualifying)
                 /\ stamps = {_seconds_to_mmss(i * SEGMENT_DURATION_SECONDS) :
                                 i \in qualifying}

\* C16: for every segment emitted by analyze_audio, the arousal label is the
\* fixed rule applied to that segment's own reported energy_score and
\* pitch_hz: High iff energy >= 0.65 and pitch >= 210; otherwise Medium iff
\* energy >= 0.35; otherwise Low.
C16_ArousalFollowsReportedFeatures ==
    (args.fn = "analyze_audio" /\ returned.kind = "value") =>
        \A k \in DOMAIN returned.value :
            LET seg == returned.value[k]
            IN  seg.acoustic_arousal =
                   IF seg.energy_score >= 65000 /\ seg.pitch_hz >= 210000 THEN "High"
                   ELSE IF seg.energy_score >= 35000 THEN "Medium"
                   ELSE "Low"

\* the phrases of a lexicon
Phrases(stems) == {stems[k] : k \in DOMAIN stems}

\* how many phrases of a lexicon occur in the lowercased line at least once
PhrasesPresent(stems) ==
    Cardinality({ph \in Phrases(stems) : Occurrences(LowerText(args.message), ph) # {}})

\* how many times the phrases of a lexicon occur in the lowercased line
OccurrenceCount(stems) ==
    Cardinality({<<ph, i>> \in Phrases(stems) \X (1..Len(args.message)) :
                    i \in Occurrences(LowerText(args.message), ph)})

\* the label of the first matching rule, for given counts
FirstMatchingRule(angry, positive, fearful, urgent) ==
    CASE angry >= 1 /\ angry >= positive -> "angry/frustrated"
      [] ~(angry >= 1 /\ angry >= positive) /\ fearful >= 1 -> "fearful/anxious"
      [] ~(angry >= 1 /\ angry >= positive) /\ fearful < 1 /\ urgent >= 1 -> "urgent"
      [] ~(angry >= 1 /\ angry >= positive) /\ fearful < 1 /\ urgent < 1 /\ positive >= 1 ->
            "positive"
      [] OTHER -> "neutral"

\* C17 as stated: classify_tone returns the label of the first matching rule
\* in the order angry (angry-count >= 1 and angry-count >= positive-count),
\* fearful, urgent, positive, neutral, where each count is the number of
\* substring occurrences of that lexicon's phrases in the lowercased line; a
\* line with an angry stem and more positive-stem occurrences than angry-stem
\* occurrences is never classified angry.
C17_FirstRuleOnOccurrenceCounts ==
    (args.fn = "classify_tone" /\ returned.kind = "value") =>
        /\ returned.value =
              FirstMatchingRule(OccurrenceCount(ANGRY_STEMS), OccurrenceCount(POSITIVE_STEMS),
                                OccurrenceCount(FEARFUL_STEMS), OccurrenceCount(URGENT_STEMS))
        /\ OccurrenceCount(POSITIVE_STEMS) > OccurrenceCount(ANGRY_STEMS) =>
              returned.value # "angry/frustrated"

\* C17 amended: the same order of rules, where each count is the number of
\* that lexicon's phrases that occur at least once as a substring of the
\* lowercased line; a line with an angry stem and more positive phrases
\* present than angry phrases present is never classified angry.
C17_FirstRuleOnPhrasesPresent ==
    (args.fn = "classify_tone" /\ returned.kind = "value") =>
        /\ returned.value =
              FirstMatchingRule(PhrasesPresent(ANGRY_STEMS), PhrasesPresent(POSITIVE_STEMS),
                                PhrasesPresent(FEARFUL_STEMS), PhrasesPresent(URGENT_STEMS))
        /\ PhrasesPresent(POSITIVE_STEMS) > PhrasesPresent(ANGRY_STEMS) =>
              returned.value # "angry/frustrated"

\* C17 witness: a line with an angry stem and more positive phrases than angry
\* ones was classified, and not as angry
C17_Witness ==
    /\ args.fn = "classify_tone"
    /\ returned.kind = "value"
    /\ PhrasesPresent(ANGRY_STEMS) >= 1
    /\ PhrasesPresent(POSITIVE_STEMS) > PhrasesPresent(ANGRY_STEMS)
    /\ returned.value = "positive"

\* the timestamp of the call under way and the instants it denotes
Timestamp == args.call_timestamp_utc

\* minutes from the start of the day before the timestamp's date to its
\* instant in UTC and in UTC+5:30
UtcSince ==
    1440 + Timestamp.minute
    - (IF Timestamp.zone = "offset" THEN Timestamp.offset ELSE 0)

IstSince == UtcSince + IST_OFFSET

UtcDay == Timestamp.day - 1 + UtcSince \div 1440

IstDay == Timestamp.day - 1 + IstSince \div 1440

IstHour == (IstSince % 1440) \div 60

IstClock == Pad2(IstHour) \o ":" \o Pad2(IstSince % 60)

\* what the claim says of a parseable timestamp
TimeRuleAnswered ==
    /\ returned.kind = "value"
    /\ returned.value.violation = (IstHour < 8 \/ IstHour >= 19)
    /\ returned.value.clause_id = "INTERNAL-TIME-01"
    /\ returned.value.ist_time = IstClock
    /\ returned.value.description =
         (IF IstHour < 8
          THEN "Call placed outside approved hours (8 AM - 7 PM IST). Call was received at "
               \o IstClock \o " IST, which is in the morning (before 8 AM)."
          ELSE IF IstHour >= 19
          THEN "Call placed outside approved hours (8 AM - 7 PM IST). Call was received at "
               \o IstClock \o " IST, which is in the evening (after 7 PM)."
          ELSE "Call placed within approved hours. IST time: " \o IstClock \o ".")

TimeCallReturned ==
    /\ args.fn = "check_time_violation"
    /\ returned # NotReturned

\* C18 as stated: for every parseable timestamp, whatever its offset, the
\* result reports a violation exactly when the UTC+5:30 hour is below 8 or at
\* least 19, says morning (before 8 AM) or evening (after 7 PM) accordingly,
\* and carries clause INTERNAL-TIME-01 and the IST time as HH:MM.
C18_EveryParseableTimestamp ==
    (TimeCallReturned /\ Timestamp.kind = "iso") => TimeRuleAnswered

\* C18 amended: the same for every parseable timestamp whose instant, both
\* in UTC and in UTC+5:30, lies between 0001-01-01T00:00 and 9999-12-31T23:59.
C18_EveryRepresentableTimestamp ==
    (/\ TimeCallReturned
     /\ Timestamp.kind = "iso"
     /\ UtcDay \in DateRange
     /\ IstDay \in DateRange) => TimeRuleAnswered

\* a timestamp with offset -08:00 whose wall clock reads an approved hour
\* (10:00) but whose IST hour is 23: reported as an evening violation
C18_Witness ==
    /\ TimeCallReturned
    /\ Timestamp.kind = "iso"
    /\ Timestamp.zone = "offset"
    /\ Timestamp.offset < 0
    /\ Timestamp.minute = 600
    /\ returned.kind = "value"
    /\ returned.value.violation
    /\ returned.value.ist_time = "23:30"

\* C19: for every input that cannot be parsed as an ISO 8601 timestamp (any
\* string, any value that is not a string) the call raises nothing and
\* returns violation false, IST time "unknown" and a description saying the
\* call time could not be determined.
C19_UnparseableFailsSoft ==
    (TimeCallReturned /\ Timestamp.kind # "iso") =>
        /\ returned.kind = "value"
        /\ returned.value.violation = FALSE
        /\ returned.value.ist_time = "unknown"
        /\ returned.value.description =
             "Could not determine call time. Timestamp parse error."

\* the corpus gave no clause to the build of the last initialize_policy_store
\* call, which started from Absent or from a stale cache
BuiltFromNothing ==
    /\ initLog.called
    /\ initLog.parsed
    /\ _parse_clause_documents(policies) = <<>>
    /\ \/ ~initLog.found.exists
       \/ Len(initLog.found.entries) > 0 /\ ~SampleIsPerClause(initLog.found)

\* C26: if the policy corpus yields zero clauses, initialize_policy_store ends
\* in Failed: it raises, never reaches Ready, leaves the process-wide handle
\* unset, and no index is persisted afterwards, both when it started from
\* Absent and when a stale cache triggered the build (the stale index has been
\* deleted by then).
C26_ZeroClausesEndsFailed ==
    BuiltFromNothing =>
        /\ initLog.raised
        /\ lifecycle # <<>>
        /\ lifecycle[Len(lifecycle)] = "Failed"
        /\ "Ready" \notin Range(lifecycle)
        /\ ~rbi_vectorstore.set
        /\ ~persisted.exists

\* the synthetic risk-trigger clauses among the clauses of a list
TriggerClauses(clauses) ==
    {i \in DOMAIN clauses : clauses[i].clause_id = "CLIENT-TRIGGER"}

\* C28: every clause the retriever returns from the client index reaches the
\* reasoning step: the clause set passed to run_compliance_analysis holds one
\* clause per distinct rule_name among the retrieved risk-trigger clauses; the
\* union with the full corpus does not collapse them.
C28_EveryTriggerClauseReachesReasoning ==
    (retrieval.ran /\ ~retrieval.raised) =>
        Cardinality({i \in DOMAIN all_clauses : all_clauses[i] = "CLIENT-TRIGGER"})
          = Cardinality({retrieval.clauses[i].rule_name :
                           i \in TriggerClauses(retrieval.clauses)})

Sections ==
    {"request_id", "metadata", "config_applied", "intelligence_summary",
     "emotional_and_tonal_analysis", "compliance_and_risk_audit", "transcript_threads",
     "performance_and_outcomes"}

BuilderCalled == args.fn = "build_output_json" /\ returned # NotReturned

\* C24: build_output_json is total on everything the earlier stages can hand
\* it: on every transcription result, every list of acoustic segments, every
\* JSON object of the reasoning step (its fallback included), every temporal
\* verdict and every merged configuration it returns a document with the
\* eight top-level sections.
C24_BuilderIsTotal ==
    BuilderCalled =>
        /\ returned.kind = "value"
        /\ DOMAIN returned.value = Sections

\* C27: build_output_json leaves the transcription result, the reasoning
\* result and the temporal verdict it was given unchanged.
C27_BuilderLeavesItsArguments ==
    [][Call_build_output_json => UNCHANGED args]_vars

\* the request's client configuration, if it sent a JSON object
ClientSent == upload.client_config.kind = "object"

ClientConfig == upload.client_config.value

ListFields == {"risk_triggers", "custom_rules"}

ConfigMerged == merged_config # EmptyDict

\* the merge of main.py as the specification words it
DefaultWithClientOnTop ==
    /\ (ConfigMerged /\ ~ClientSent) => merged_config = DefaultConfig
    /\ (ConfigMerged /\ ClientSent) =>
          /\ DOMAIN merged_config = DOMAIN DefaultConfig \cup DOMAIN ClientConfig
          /\ \A k \in DOMAIN ClientConfig \ ListFields : merged_config[k] = ClientConfig[k]
          /\ \A k \in DOMAIN DefaultConfig \ DOMAIN ClientConfig :
                merged_config[k] = DefaultConfig[k]
          /\ "risk_triggers" \in DOMAIN ClientConfig =>
                /\ Distinct(merged_config["risk_triggers"])
                /\ Range(merged_config["risk_triggers"])
                     = Range(DefaultConfig["risk_triggers"])
                       \cup Range(ClientConfig["risk_triggers"].items)
          /\ "custom_rules" \in DOMAIN ClientConfig =>
                merged_config["custom_rules"]
                  = DefaultConfig["custom_rules"] \o ClientConfig["custom_rules"].items

ReportedFields == {"business_domain", "monitored_products", "active_policy_set", "risk_triggers"}

\* C21: the configuration applied to a request is the default with the
\* client's configuration on top: a client scalar overwrites the default, a
\* field the client leaves out keeps the default, risk_triggers is the
\* duplicate-free union of both trigger lists, custom_rules is the default's
\* rules followed by the client's, without a client configuration the default
\* is applied unchanged; and config_applied of the document reports these
\* merged values, every field of the merged configuration.
C21_MergedAndReported ==
    /\ DefaultWithClientOnTop
    /\ response.kind = "audit" =>
          \A k \in DOMAIN merged_config :
              /\ k \in DOMAIN response.body.config_applied
              /\ response.body.config_applied[k] = merged_config[k]

\* C21 as the code has it: the same merge, and config_applied reports the
\* merged business_domain, monitored_products, active_policy_set and
\* risk_triggers, and nothing else.
C21_MergedAndFourFieldsReported ==
    /\ DefaultWithClientOnTop
    /\ response.kind = "audit" =>
          /\ DOMAIN response.body.config_applied = ReportedFields
          /\ \A k \in ReportedFields : response.body.config_applied[k] = merged_config[k]

\* a request with scalar, trigger and rule overrides, a trigger shared with
\* the default, has been answered with its document
C21_Witness ==
    /\ pc = "answered"
    /\ response.kind = "audit"
    /\ ClientSent
    /\ DOMAIN ClientConfig = {"active_policy_set", "risk_triggers", "custom_rules"}
    /\ response.body.config_applied.active_policy_set = "Client_v1"
    /\ Len(response.body.config_applied.risk_triggers) = 3
    /\ Len(merged_config["custom_rules"]) = 2

\* C22: on every exit path of the pipeline after the temporary audio file was
\* created, the file no longer exists when the pipeline has finished.
C22_TempFileGone ==
    (pc = "answered" /\ tmp_audio_path # None) => tmp_audio_path \notin tempdir

\* the upload has an unsupported container or a malformed configuration
Malformed ==
    \/ upload.suffix \notin SUPPORTED_EXTENSIONS
    \/ upload.client_config.kind \in {"not_json", "not_object"}
    \/ /\ ClientSent
       /\ \E k \in DOMAIN ClientConfig \cap ListFields : ClientConfig[k].type # "list"

\* C23: a request with an unsupported container or a malformed client
\* configuration is answered with a client error (400) before the audio is
\* saved and before any later stage runs.
C23_MalformedRejectedFirst ==
    (pc # "received" /\ Malformed) =>
        /\ calls = <<>>
        /\ response = HttpError(400)

SpokenBy(turns) == [i \in DOMAIN turns |-> <<turns[i].speaker, turns[i].message>>]

\* C29: the speaker and message of every transcript turn of a returned
\* document are those the transcription service returned for the audio; no
\* invented turns stand in when it failed, ran out of time or gave none.
C29_TurnsAreTheServices ==
    response.kind = "audit" =>
        /\ heard.kind = "turns"
        /\ SpokenBy(response.body.transcript_threads) = SpokenBy(heard.turns)

\* the polls the budget allows
MaxPolls == max_wait \div POLL_SECONDS

\* C30: the polling loop of transcribe_and_analyze performs at most 30 polls
\* (60 s in steps of 2 s) whatever states the service reports; and when the
\* file is not ACTIVE at the end of the loop the function returns the
\* fallback transcript without having called the reasoning service, and has
\* attempted to delete the uploaded file.
C30_WaitIsBounded ==
    /\ MaxPolls = 30
    /\ transcriber.pc # "idle" =>
          /\ transcriber.polls <= MaxPolls
          /\ transcriber.waited = POLL_SECONDS * transcriber.polls
          /\ transcriber.waited <= max_wait
    /\ (transcriber.pc = "returned" /\ transcriber.uploaded
                                    /\ transcriber.state # "ACTIVE") =>
          /\ transcriber.result = _build_fallback_transcript
          /\ "generate_content" \notin Range(transcriber.log)
          /\ transcriber.log[Len(transcriber.log)] = "delete_file"

\* the budget was used up on a file that never left PROCESSING
C30_Witness ==
    /\ transcriber.pc = "returned"
    /\ transcriber.polls = 30
    /\ transcriber.state = "PROCESSING"
    /\ transcriber.result = _build_fallback_transcript
    /\ "delete_file" \in Range(transcriber.log)

\* every handle a request has read is the handle of the process
SameHandleThroughout ==
    \A w \in DOMAIN workers :
        \A i \in DOMAIN workers[w].reads : workers[w].reads[i] = rbi_vectorstore

\* a request exists only once the startup part of lifespan has run
NoRequestBeforeStartup == workers # <<>> => phase = "serving"

\* the index and its handle are written by the startup step alone
WrittenAtStartupOnly ==
    (phase = "serving" \/ workers # <<>>)
        => UNCHANGED <<rbi_vectorstore, persisted, lifecycle, initLog>>

\* C25: under any interleaving of concurrent requests the index lifecycle
\* runs once, at process startup: the handle is written only by
\* initialize_policy_store during startup, no step of a request writes it or
\* runs the lifecycle, no request retrieves before startup has finished, and
\* the handle a request reads is the same at every point of the request.
C25_LifecycleOnceAtStartup ==
    /\ [](NoRequestBeforeStartup /\ SameHandleThroughout)
    /\ [][WrittenAtStartupOnly]_vars

\* two requests have both read the handle of a Ready index twice
C25_Witness ==
    /\ Len(workers) = 2
    /\ \A w \in DOMAIN workers : Len(workers[w].reads) = 2
    /\ rbi_vectorstore.set
    /\ lifecycle[Len(lifecycle)] = "Ready"
====
